---- MODULE Spec2Model ----
(***************************************************************************)
(* A model of the calendar arithmetic of joda-rs: LocalDate, LocalTime,    *)
(* Duration and the plus_years family of the composite date-time types.    *)
(*                                                                         *)
(* Every operation of the library is a pure function of its receiver and   *)
(* arguments that either returns a value or panics.  An operation is       *)
(* modelled by an operator that yields Ok(value) or Panic(message); the    *)
(* state machine holds one object (recv), applies one operation per step   *)
(* and records the call (the receiver, the arguments and the outcome).  A  *)
(* panicking call leaves the object as it was.                             *)
(*                                                                         *)
(* The model checker's integers are 32 bits wide, so the machine integers  *)
(* of the program are narrowed: I32_MAX and I64_MAX stand for i32::MAX and *)
(* i64::MAX.  They are chosen so that every "ordinary" amount used below   *)
(* overflows nowhere and every "extreme" amount overflows exactly where    *)
(* the true widths overflow.  u8 and u16 keep their true width.            *)
(***************************************************************************)
EXTENDS Integers, Sequences, FiniteSets, TLC

VARIABLES recv, call, steps

vars == <<recv, call, steps>>

(***************************************************************************)
(* Bounds                                                                  *)
(***************************************************************************)
MaxSteps == 2
MaxCalls == 1
I32_MAX == 16777215
I64_MAX == 1073741823

I32_MIN == -I32_MAX - 1
I64_MIN == -I64_MAX - 1

(***************************************************************************)
(* Constants of the program and of the civil-calendar primitive            *)
(***************************************************************************)
MIN_YEAR == -9999
MAX_YEAR == 9999
NANOS_PER_SECOND == 1000000000
SECONDS_PER_MINUTE == 60
SECONDS_PER_HOUR == 3600
SECONDS_PER_DAY == 86400
SECONDS_PER_WEEK == 604800

(***************************************************************************)
(* Outcomes                                                                *)
(***************************************************************************)
Ok(v) == [ok |-> TRUE, val |-> v]
Panic(msg) == [ok |-> FALSE, err |-> msg]

SameOutcome(a, b) == a.ok = b.ok /\ (a.ok => a.val = b.val)

(***************************************************************************)
(* Machine arithmetic                                                      *)
(***************************************************************************)
Min(a, b) == IF a <= b THEN a ELSE b
Abs(a) == IF a < 0 THEN -a ELSE a

\* Rust / and % on signed integers truncate toward zero (divisor > 0).
Quot(a, b) == IF a >= 0 THEN a \div b ELSE -((-a) \div b)
Rem(a, b) == a - b * Quot(a, b)

\* x as u8, x as u16, x as i32: the low bits of the value.
AsU8(x) == x % 256
AsU16(x) == x % 65536
AsI32(x) == ((x - I32_MIN) % (2 * (I32_MAX + 1))) + I32_MIN

InI32(x) == I32_MIN <= x /\ x <= I32_MAX
InI64(x) == I64_MIN <= x /\ x <= I64_MAX

\* i64::checked_mul(n, k) for a constant k > 0, without forming the product
\* when it does not fit.
MulFitsI64(n, k) == n <= I64_MAX \div k /\ n >= -((I64_MAX + 1) \div k)

\* i64::checked_add(a, b) succeeds, without forming a sum that does not fit.
AddFitsI64(a, b) ==
    IF b >= 0 THEN a <= I64_MAX - b ELSE a >= I64_MIN - b

(***************************************************************************)
(* Calendar field math                                                     *)
(***************************************************************************)
\* Year::is_leap without the century rule.
YearIsLeapEveryFourth(y) == Rem(y, 4) = 0

\* Year::is_leap
YearIsLeap(y) == (Rem(y, 4) = 0) /\ ((Rem(y, 100) # 0) \/ (Rem(y, 400) = 0))

\* Year::length
YearLength(y) == IF YearIsLeap(y) THEN 366 ELSE 365

\* Month::length
MonthLength(m, leap) ==
    CASE m = 2 -> IF leap THEN 29 ELSE 28
      [] m \in {4, 6, 9, 11} -> 30
      [] OTHER -> 31

\* time::util::is_leap_year
is_leap_year(y) == (Rem(y, 4) = 0) /\ ((Rem(y, 25) # 0) \/ (Rem(y, 16) = 0))

\* time::Month::length(year)
days_in_month(m, y) ==
    CASE m = 2 -> IF is_leap_year(y) THEN 29 ELSE 28
      [] m \in {4, 6, 9, 11} -> 30
      [] OTHER -> 31

MkDate(y, m, d) == [year |-> y, month |-> m, day |-> d]

\* time::Date::from_calendar_date: the year must be in MIN_YEAR..MAX_YEAR and
\* the day in 1..days_in_month.
from_calendar_date(y, m, d) ==
    IF y < MIN_YEAR \/ y > MAX_YEAR THEN Panic("year out of range")
    ELSE IF d < 1 \/ d > days_in_month(m, y) THEN Panic("day out of range")
    ELSE Ok(MkDate(y, m, d))

\* Days of the year that precede month m.
RECURSIVE DaysBefore(_, _)
DaysBefore(m, y) == IF m = 1 THEN 0 ELSE DaysBefore(m - 1, y) + days_in_month(m - 1, y)

\* time::Date::ordinal
Ordinal(date) == DaysBefore(date.month, date.year) + date.day

\* time::Date::from_ordinal_date for an ordinal valid in the year.
FromOrdinal(y, ord) ==
    LET m == CHOOSE k \in 1..12 :
                 DaysBefore(k, y) < ord /\ ord <= DaysBefore(k, y) + days_in_month(k, y)
    IN MkDate(y, m, ord - DaysBefore(m, y))

\* time::Date::to_julian_day
to_julian_day(date) ==
    LET y == date.year - 1
    IN Ordinal(date) + 365 * y + (y \div 4) - (y \div 100) + (y \div 400) + 1721425

MIN_JULIAN == to_julian_day(MkDate(MIN_YEAR, 1, 1))
MAX_JULIAN == to_julian_day(MkDate(MAX_YEAR, 12, 31))

\* time::Date::from_julian_day: the inverse of to_julian_day, an error outside
\* the supported range.
from_julian_day(jd) ==
    IF jd < MIN_JULIAN \/ jd > MAX_JULIAN THEN Panic("julian_day out of range")
    ELSE LET days == jd - 1721426
             n400 == days \div 146097
             r400 == days % 146097
             n100 == Min(r400 \div 36524, 3)
             r100 == r400 - n100 * 36524
             n4   == r100 \div 1461
             r4   == r100 % 1461
             n1   == Min(r4 \div 365, 3)
             y    == 400 * n400 + 100 * n100 + 4 * n4 + n1 + 1
         IN Ok(FromOrdinal(y, r4 - n1 * 365 + 1))

\* time::Date::weekday, numbered as time::Weekday::number_from_monday, and
\* the From<time::Weekday> mapping to DayOfWeek (Monday = 1 .. Sunday = 7).
day_of_week(date) == (to_julian_day(date) % 7) + 1

(***************************************************************************)
(* time::Duration: (seconds, nanoseconds) of one sign                      *)
(***************************************************************************)
MkDuration(s, n) == [secs |-> s, nanos |-> n]

\* time::Duration::seconds
DurationSeconds(n) == Ok(MkDuration(n, 0))

\* time::Duration::minutes / hours / days / weeks: a checked multiplication
\* by the unit's length in seconds.
DurationOfUnit(n, unit) ==
    IF MulFitsI64(n, unit) THEN Ok(MkDuration(n * unit, 0))
    ELSE Panic("overflow constructing time::Duration")

\* time::Duration::milliseconds
DurationMilliseconds(n) == Ok(MkDuration(Quot(n, 1000), Rem(n, 1000) * 1000000))

\* time::Duration::nanoseconds
DurationNanoseconds(n) == Ok(MkDuration(Quot(n, NANOS_PER_SECOND), Rem(n, NANOS_PER_SECOND)))

\* Duration::of_weeks .. Duration::of_nanoseconds
of_weeks(n) == DurationOfUnit(n, SECONDS_PER_WEEK)
of_days(n) == DurationOfUnit(n, SECONDS_PER_DAY)
of_hours(n) == DurationOfUnit(n, SECONDS_PER_HOUR)
of_minutes(n) == DurationOfUnit(n, SECONDS_PER_MINUTE)
of_seconds(n) == DurationSeconds(n)
of_milliseconds(n) == DurationMilliseconds(n)
of_nanoseconds(n) == DurationNanoseconds(n)

\* time::Duration::whole_days
whole_days(d) == Quot(d.secs, SECONDS_PER_DAY)

\* Duration::to_weeks .. Duration::to_seconds with the division rounding down.
to_unit_floored(d, unit) ==
    CASE unit = "weeks" -> d.secs \div SECONDS_PER_WEEK
      [] unit = "days" -> d.secs \div SECONDS_PER_DAY
      [] unit = "hours" -> d.secs \div SECONDS_PER_HOUR
      [] unit = "minutes" -> d.secs \div SECONDS_PER_MINUTE
      [] unit = "seconds" -> d.secs

\* Duration::to_weeks, to_days, to_hours, to_minutes, to_seconds, by unit
\* name: time::Duration::whole_weeks .. whole_seconds divide the seconds with
\* the truncating division of i64.
to_unit(d, unit) ==
    CASE unit = "weeks" -> Quot(d.secs, SECONDS_PER_WEEK)
      [] unit = "days" -> whole_days(d)
      [] unit = "hours" -> Quot(d.secs, SECONDS_PER_HOUR)
      [] unit = "minutes" -> Quot(d.secs, SECONDS_PER_MINUTE)
      [] unit = "seconds" -> d.secs

\* time::Duration::MAX and time::Duration::MIN
DURATION_MAX == MkDuration(I64_MAX, NANOS_PER_SECOND - 1)
DURATION_MIN == MkDuration(I64_MIN, -(NANOS_PER_SECOND - 1))

\* The carry between nanoseconds and seconds shared by the additions of
\* time::Duration: <<seconds, nanoseconds, direction of the carry>>.
DurationCarry(secs, nanos) ==
    IF nanos >= NANOS_PER_SECOND \/ (secs < 0 /\ nanos > 0)
    THEN <<secs, nanos - NANOS_PER_SECOND, 1>>
    ELSE IF nanos <= -NANOS_PER_SECOND \/ (secs > 0 /\ nanos < 0)
    THEN <<secs, nanos + NANOS_PER_SECOND, -1>>
    ELSE <<secs, nanos, 0>>

\* time::Duration::checked_add / checked_sub (sign = 1 / -1)
duration_checked(a, b, sign) ==
    IF ~AddFitsI64(a.secs, sign * b.secs) THEN Panic("None")
    ELSE LET c == DurationCarry(a.secs + sign * b.secs, a.nanos + sign * b.nanos)
         IN IF ~AddFitsI64(c[1], c[3]) THEN Panic("None")
            ELSE Ok(MkDuration(c[1] + c[3], c[2]))

\* time::Duration::saturating_add / saturating_sub (sign = 1 / -1)
duration_saturating(a, b, sign) ==
    IF ~AddFitsI64(a.secs, sign * b.secs)
    THEN (IF a.secs > 0 THEN DURATION_MAX ELSE DURATION_MIN)
    ELSE LET c == DurationCarry(a.secs + sign * b.secs, a.nanos + sign * b.nanos)
         IN IF ~AddFitsI64(c[1], c[3])
            THEN (IF c[3] > 0 THEN DURATION_MAX ELSE DURATION_MIN)
            ELSE MkDuration(c[1] + c[3], c[2])

\* Duration::abs with the two's-complement negation of the seconds.
duration_abs_wrapping(d) ==
    IF d.secs = I64_MIN THEN MkDuration(I64_MIN, Abs(d.nanos))
    ELSE MkDuration(Abs(d.secs), Abs(d.nanos))

\* Duration::abs: time::Duration::abs, which saturates to time::Duration::MAX
\* when the seconds have no absolute value in i64.
duration_abs(d) ==
    IF d.secs = I64_MIN THEN DURATION_MAX
    ELSE MkDuration(Abs(d.secs), Abs(d.nanos))

\* Duration::plus (Add for time::Duration panics on overflow)
duration_plus(a, b) ==
    LET r == duration_checked(a, b, 1)
    IN IF r.ok THEN r ELSE Panic("overflow when adding durations")

\* Duration::minus (Sub for time::Duration panics on overflow)
duration_minus(a, b) ==
    LET r == duration_checked(a, b, -1)
    IN IF r.ok THEN r ELSE Panic("overflow when subtracting durations")

\* Duration::plus_days .. Duration::minus_nanoseconds: build the operand,
\* then add or subtract it saturating.
duration_per_unit(a, operand, sign) ==
    IF ~operand.ok THEN operand ELSE Ok(duration_saturating(a, operand.val, sign))

duration_plus_days(a, n) == duration_per_unit(a, DurationOfUnit(n, SECONDS_PER_DAY), 1)
duration_minus_days(a, n) == duration_per_unit(a, DurationOfUnit(n, SECONDS_PER_DAY), -1)
duration_plus_hours(a, n) == duration_per_unit(a, DurationOfUnit(n, SECONDS_PER_HOUR), 1)
duration_minus_hours(a, n) == duration_per_unit(a, DurationOfUnit(n, SECONDS_PER_HOUR), -1)
duration_plus_minutes(a, n) == duration_per_unit(a, DurationOfUnit(n, SECONDS_PER_MINUTE), 1)
duration_minus_minutes(a, n) == duration_per_unit(a, DurationOfUnit(n, SECONDS_PER_MINUTE), -1)
duration_plus_seconds(a, n) == duration_per_unit(a, DurationSeconds(n), 1)
duration_minus_seconds(a, n) == duration_per_unit(a, DurationSeconds(n), -1)
duration_plus_milliseconds(a, n) == duration_per_unit(a, DurationMilliseconds(n), 1)
duration_minus_milliseconds(a, n) == duration_per_unit(a, DurationMilliseconds(n), -1)
duration_plus_nanoseconds(a, n) == duration_per_unit(a, DurationNanoseconds(n), 1)
duration_minus_nanoseconds(a, n) == duration_per_unit(a, DurationNanoseconds(n), -1)

(***************************************************************************)
(* LocalDate                                                               *)
(***************************************************************************)
\* time::Date::checked_add / checked_sub (sign = 1 / -1): None when the day
\* count or the resulting Julian day does not fit.
date_checked(date, dur, sign) ==
    LET wd == whole_days(dur)
        jd == to_julian_day(date) + sign * wd
    IN IF ~InI32(wd) \/ ~InI32(jd) THEN Panic("None")
       ELSE from_julian_day(jd)

\* LocalDate::new
LocalDate_new(year, month, day) ==
    LET m == AsU8(month)
    IN IF m \notin 1..12 THEN Panic("invalid month 1-12")
       ELSE LET d == from_calendar_date(year, m, AsU8(day))
            IN IF d.ok THEN d ELSE Panic("invalid date")

\* LocalDate::of
LocalDate_of(year, month, day) == LocalDate_new(year, month, day)

\* LocalDate::length_of_month
length_of_month(date) == MonthLength(date.month, YearIsLeap(date.year))

\* plus_years without the February 29 clamp.
plus_years_no_clamp(date, years) ==
    LET target == date.year + years
    IN IF ~InI64(target) THEN Panic("attempt to add with overflow")
       ELSE IF target > I32_MAX \/ target < I32_MIN THEN Panic("year overflow")
       ELSE LET r == from_calendar_date(target, date.month, date.day)
            IN IF r.ok THEN r ELSE Panic("invalid date")

\* LocalDate::plus_years
plus_years(date, years) ==
    LET target == date.year + years
    IN IF ~InI64(target) THEN Panic("attempt to add with overflow")
       ELSE IF target > I32_MAX \/ target < I32_MIN THEN Panic("year overflow")
       ELSE LET day == IF date.month = 2 /\ date.day = 29 /\ ~is_leap_year(target)
                       THEN 28 ELSE date.day
                r == from_calendar_date(target, date.month, day)
            IN IF r.ok THEN r ELSE Panic("invalid date")

\* The two normalising loops of LocalDate::plus_months.
RECURSIVE MonthsDown(_, _)
MonthsDown(year, month) ==
    IF month > 12 THEN MonthsDown(year + 1, month - 12) ELSE <<year, month>>

RECURSIVE MonthsUp(_, _)
MonthsUp(year, month) ==
    IF month < 1 THEN MonthsUp(year - 1, month + 12) ELSE <<year, month>>

\* plus_months clamping to the length of the month in the original year.
plus_months_stale_year(date, months) ==
    IF ~InI32(date.month + months) THEN Panic("attempt to add with overflow")
    ELSE LET a == MonthsDown(date.year, date.month + months)
             b == MonthsUp(a[1], a[2])
             last_day == MonthLength(b[2], YearIsLeap(date.year))
         IN LocalDate_new(b[1], b[2], Min(date.day, last_day))

\* LocalDate::plus_months
plus_months(date, months) ==
    IF ~InI32(date.month + months) THEN Panic("attempt to add with overflow")
    ELSE LET a == MonthsDown(date.year, date.month + months)
             b == MonthsUp(a[1], a[2])
             year == b[1]
             month == b[2]
             last_day == MonthLength(month, YearIsLeap(year))
             day == Min(date.day, last_day)
         IN LocalDate_new(year, month, day)

\* LocalDate::plus_weeks
plus_weeks(date, weeks) ==
    LET dur == of_weeks(weeks)
    IN IF ~dur.ok THEN dur
       ELSE LET r == date_checked(date, dur.val, 1)
            IN IF r.ok THEN r ELSE Panic("Date overflow in plus_weeks")

\* LocalDate::plus_days
plus_days(date, days) ==
    LET dur == of_days(days)
    IN IF ~dur.ok THEN dur
       ELSE LET r == date_checked(date, dur.val, 1)
            IN IF r.ok THEN r ELSE Panic("Date overflow in plus_days")

\* LocalDate::minus_years
minus_years(date, years) ==
    IF ~InI64(-years) THEN Panic("attempt to negate with overflow")
    ELSE plus_years(date, -years)

\* LocalDate::minus_months
minus_months(date, months) ==
    LET total_months == (date.year * 12 + (date.month - 1)) - months
    IN IF ~InI32(total_months) THEN Panic("attempt to subtract with overflow")
       ELSE LET year == Quot(total_months, 12)
                month == Rem(Rem(total_months, 12) + 12, 12) + 1
                last_day == MonthLength(month, YearIsLeap(year))
                day == Min(date.day, last_day)
            IN LocalDate_new(year, month, day)

\* LocalDate::minus_weeks
minus_weeks(date, weeks) ==
    LET dur == of_weeks(weeks)
    IN IF ~dur.ok THEN dur
       ELSE LET r == date_checked(date, dur.val, -1)
            IN IF r.ok THEN r ELSE Panic("Date overflow in minus_weeks")

\* LocalDate::minus_days
minus_days(date, days) ==
    LET dur == of_days(days)
    IN IF ~dur.ok THEN dur
       ELSE LET r == date_checked(date, dur.val, -1)
            IN IF r.ok THEN r ELSE Panic("Date overflow in minus_days")

\* LocalDate::with_year (time::Date::replace_year keeps month and day and
\* rejects February 29 in a common year).
with_year(date, year) ==
    LET r == from_calendar_date(year, date.month, date.day)
    IN IF r.ok THEN r ELSE Panic("Invalid year")

\* LocalDate::with_month
with_month(date, month) ==
    LET m == AsU8(month)
    IN IF m \notin 1..12 THEN Panic("Invalid month")
       ELSE LET r == from_calendar_date(date.year, m, date.day)
            IN IF r.ok THEN r ELSE Panic("Invalid month")

\* LocalDate::with_day_of_year (the argument is a u16)
with_day_of_year(date, day_of_year) ==
    IF day_of_year = 0 \/ day_of_year > AsU16(YearLength(date.year))
    THEN Panic("day-of-year must be 1..=365/366")
    ELSE LET jan1 == MkDate(date.year, 1, 1)
             dur == DurationOfUnit(day_of_year - 1, SECONDS_PER_DAY)
         IN IF ~dur.ok THEN dur
            ELSE LET r == date_checked(jan1, dur.val, 1)
                 IN IF r.ok THEN r ELSE Panic("overflow adding duration to date")

\* with_day_of_month checking the day against 1..31 only.
with_day_of_month_any_month(date, day) ==
    IF AsU8(day) \in 1..31 THEN Ok(MkDate(date.year, date.month, AsU8(day)))
    ELSE Panic("invalid day")

\* LocalDate::with_day_of_month (time::Date::replace_day)
with_day_of_month(date, day) ==
    LET r == from_calendar_date(date.year, date.month, AsU8(day))
    IN IF r.ok THEN r ELSE Panic("invalid day")

\* LocalDate::first_day_of_month
first_day_of_month(date) == with_day_of_month(date, 1)

\* LocalDate::last_day_of_month
last_day_of_month(date) == with_day_of_month(date, length_of_month(date))

\* LocalDate::first_in_month with the offset applied to the receiver instead
\* of the first day of its month.
first_in_month_from_self(date, dow) ==
    LET first == first_day_of_month(date)
    IN IF ~first.ok THEN first
       ELSE LET delta == Rem(dow - day_of_week(first.val) + 7, 7)
            IN plus_days(date, delta)

\* LocalDate::first_in_month
first_in_month(date, dow) ==
    LET first == first_day_of_month(date)
    IN IF ~first.ok THEN first
       ELSE LET delta == Rem(dow - day_of_week(first.val) + 7, 7)
            IN plus_days(first.val, delta)

\* LocalDate::last_in_month
last_in_month(date, dow) ==
    LET last == last_day_of_month(date)
    IN IF ~last.ok THEN last
       ELSE LET delta == Rem(day_of_week(last.val) - dow + 7, 7)
            IN minus_days(last.val, delta)

\* LocalDate::next without the full-week rule for a date already on dow.
next_same_day(date, dow) ==
    LET d0 == Rem(dow - day_of_week(date) + 7, 7)
        delta == d0
    IN plus_days(date, delta)

\* LocalDate::next
next(date, dow) ==
    LET d0 == Rem(dow - day_of_week(date) + 7, 7)
        delta == IF d0 = 0 THEN 7 ELSE d0
    IN plus_days(date, delta)

\* LocalDate::next_or_same
next_or_same(date, dow) ==
    plus_days(date, Rem(dow - day_of_week(date) + 7, 7))

\* LocalDate::previous
previous(date, dow) ==
    LET d0 == Rem(day_of_week(date) - dow + 7, 7)
        delta == IF d0 = 0 THEN 7 ELSE d0
    IN minus_days(date, delta)

\* LocalDate::previous_or_same
previous_or_same(date, dow) ==
    minus_days(date, Rem(day_of_week(date) - dow + 7, 7))

(***************************************************************************)
(* LocalTime                                                               *)
(***************************************************************************)
MkTime(h, m, s, n) == [hour |-> h, minute |-> m, second |-> s, nano |-> n]

\* time::Time::from_hms_nano: every field must be in its range.
from_hms_nano(h, m, s, n) ==
    IF h > 23 \/ m > 59 \/ s > 59 \/ n >= NANOS_PER_SECOND
    THEN Panic("component out of range")
    ELSE Ok(MkTime(h, m, s, n))

\* LocalTime::new
LocalTime_new(hour, minute, second) ==
    LET r == from_hms_nano(AsU8(hour), AsU8(minute), AsU8(second), 0)
    IN IF r.ok THEN r ELSE Panic("invalid time")

\* LocalTime::of
LocalTime_of(hour, minute, second) == LocalTime_new(hour, minute, second)

\* The cascade! step of time::Time: carry x into the next field when it
\* leaves 0..max-1.  Yields <<x, carry>>.
Cascade(x, max) ==
    IF x >= max THEN <<x - max, 1>>
    ELSE IF x < 0 THEN <<x + max, -1>>
    ELSE <<x, 0>>

\* time::Time::adjusting_add / adjusting_sub (sign = 1 / -1), keeping only
\* the time of day, as Add<Duration> / Sub<Duration> for Time do.
time_adjusting(t, dur, sign) ==
    LET ns == Cascade(t.nano + sign * dur.nanos, NANOS_PER_SECOND)
        s  == Cascade(t.second + sign * Rem(dur.secs, 60) + ns[2], 60)
        m  == Cascade(t.minute + sign * Rem(Quot(dur.secs, 60), 60) + s[2], 60)
        h  == Cascade(t.hour + sign * Rem(Quot(dur.secs, 3600), 24) + m[2], 24)
    IN MkTime(h[1], m[1], s[1], ns[1])

\* LocalTime::plus_hours .. minus_nanoseconds: build the Duration, then add
\* it to or subtract it from the time of day.
time_apply(t, dur, sign) == IF ~dur.ok THEN dur ELSE Ok(time_adjusting(t, dur.val, sign))

time_plus_hours(t, n) == time_apply(t, of_hours(n), 1)
time_plus_minutes(t, n) == time_apply(t, of_minutes(n), 1)
time_plus_seconds(t, n) == time_apply(t, of_seconds(n), 1)
time_plus_milliseconds(t, n) == time_apply(t, of_milliseconds(n), 1)
time_plus_nanoseconds(t, n) == time_apply(t, of_nanoseconds(n), 1)
time_minus_hours(t, n) == time_apply(t, of_hours(n), -1)
time_minus_minutes(t, n) == time_apply(t, of_minutes(n), -1)
time_minus_seconds(t, n) == time_apply(t, of_seconds(n), -1)
time_minus_milliseconds(t, n) == time_apply(t, of_milliseconds(n), -1)
time_minus_nanoseconds(t, n) == time_apply(t, of_nanoseconds(n), -1)

\* LocalTime::with_hour (u8 argument)
with_hour(t, hour) ==
    LET r == from_hms_nano(hour, t.minute, t.second, t.nano)
    IN IF r.ok THEN r ELSE Panic("invalid hour")

\* LocalTime::with_minute (u8 argument)
with_minute(t, minute) ==
    LET r == from_hms_nano(t.hour, minute, t.second, t.nano)
    IN IF r.ok THEN r ELSE Panic("invalid minute")

\* LocalTime::with_second (u8 argument)
with_second(t, second) ==
    LET r == from_hms_nano(t.hour, t.minute, second, t.nano)
    IN IF r.ok THEN r ELSE Panic("invalid second")

\* LocalTime::with_millisecond (u16 argument; replaces the whole sub-second
\* part)
with_millisecond(t, millisecond) ==
    IF millisecond > 999 THEN Panic("invalid millisecond")
    ELSE Ok(MkTime(t.hour, t.minute, t.second, millisecond * 1000000))

\* LocalTime::with_nanosecond (u32 argument)
with_nanosecond(t, nanosecond) ==
    LET r == from_hms_nano(t.hour, t.minute, t.second, nanosecond)
    IN IF r.ok THEN r ELSE Panic("invalid nanosecond")

(***************************************************************************)
(* The LocalDate machine: one date, one operation per step                 *)
(***************************************************************************)
InitDates ==
    { MkDate(2020, 1, 31), MkDate(2019, 1, 31), MkDate(2020, 2, 29),
      MkDate(2000, 2, 29), MkDate(2021, 3, 14), MkDate(2021, 4, 30),
      MkDate(2021, 12, 31), MkDate(0, 3, 15), MkDate(-1, 2, 10),
      MkDate(-4, 2, 29), MkDate(MAX_YEAR, 12, 31), MkDate(MIN_YEAR, 1, 1) }

MonthAmounts == {-25, -12, -5, -1, 0, 1, 13, I32_MAX}
YearAmounts == {-4, -1, 0, 1, 100, I32_MAX, I64_MAX, I64_MIN}
DayAmounts == {-366, -1, 1, 31, I64_MAX}
WeekAmounts == {-1, 1, 53, I64_MIN}
YearValues == {-1, 1900, 2019, 2024, MAX_YEAR + 1}
MonthValues == {0, 2, 4, 12, 13, 258}
DayValues == {0, 1, 29, 30, 31, 32, 261, 287}
DayOfYearValues == {0, 1, 60, 366, 367}
DaysOfWeek == {1, 3, 6, 7}

IsDate(v) == DOMAIN v = {"year", "month", "day"}

Step(op, arg, res) ==
    /\ steps < MaxSteps
    /\ call' = [op |-> op, self |-> recv, arg |-> arg, res |-> res]
    /\ recv' = IF res.ok THEN res.val ELSE recv
    /\ steps' = steps + 1

InitCall(v) == [op |-> "init", self |-> v, arg |-> <<>>, res |-> Ok(v)]

Init ==
    /\ recv \in InitDates
    /\ call = InitCall(recv)
    /\ steps = 0

PlusYears == IsDate(recv) /\ \E n \in YearAmounts : Step("plus_years", <<n>>, plus_years(recv, n))
PlusMonths == IsDate(recv) /\ \E n \in MonthAmounts : Step("plus_months", <<n>>, plus_months(recv, n))
PlusWeeks == IsDate(recv) /\ \E n \in WeekAmounts : Step("plus_weeks", <<n>>, plus_weeks(recv, n))
PlusDays == IsDate(recv) /\ \E n \in DayAmounts : Step("plus_days", <<n>>, plus_days(recv, n))
MinusYears == IsDate(recv) /\ \E n \in YearAmounts : Step("minus_years", <<n>>, minus_years(recv, n))
MinusMonths == IsDate(recv) /\ \E n \in MonthAmounts : Step("minus_months", <<n>>, minus_months(recv, n))
MinusWeeks == IsDate(recv) /\ \E n \in WeekAmounts : Step("minus_weeks", <<n>>, minus_weeks(recv, n))
MinusDays == IsDate(recv) /\ \E n \in DayAmounts : Step("minus_days", <<n>>, minus_days(recv, n))
WithYear == IsDate(recv) /\ \E y \in YearValues : Step("with_year", <<y>>, with_year(recv, y))
WithMonth == IsDate(recv) /\ \E m \in MonthValues : Step("with_month", <<m>>, with_month(recv, m))
WithDayOfYear == IsDate(recv) /\ \E n \in DayOfYearValues : Step("with_day_of_year", <<n>>, with_day_of_year(recv, n))
WithDayOfMonth == IsDate(recv) /\ \E d \in DayValues : Step("with_day_of_month", <<d>>, with_day_of_month(recv, d))
FirstInMonth == IsDate(recv) /\ \E w \in DaysOfWeek : Step("first_in_month", <<w>>, first_in_month(recv, w))
LastInMonth == IsDate(recv) /\ \E w \in DaysOfWeek : Step("last_in_month", <<w>>, last_in_month(recv, w))
NextDow == IsDate(recv) /\ \E w \in DaysOfWeek : Step("next", <<w>>, next(recv, w))
NextOrSame == IsDate(recv) /\ \E w \in DaysOfWeek : Step("next_or_same", <<w>>, next_or_same(recv, w))
Previous == IsDate(recv) /\ \E w \in DaysOfWeek : Step("previous", <<w>>, previous(recv, w))
PreviousOrSame == IsDate(recv) /\ \E w \in DaysOfWeek : Step("previous_or_same", <<w>>, previous_or_same(recv, w))

Next ==
    \/ PlusYears \/ PlusMonths \/ PlusWeeks \/ PlusDays
    \/ MinusYears \/ MinusMonths \/ MinusWeeks \/ MinusDays
    \/ WithYear \/ WithMonth \/ WithDayOfYear \/ WithDayOfMonth
    \/ FirstInMonth \/ LastInMonth
    \/ NextDow \/ NextOrSame \/ Previous \/ PreviousOrSame

Spec == Init /\ [][Next]_vars

(***************************************************************************)
(* The Duration machine                                                    *)
(***************************************************************************)
InitDurations ==
    { MkDuration(0, 0), MkDuration(5, 0), MkDuration(-5, 0),
      MkDuration(1, 500000000), MkDuration(I64_MAX, 0), MkDuration(I64_MAX - 1, 0),
      MkDuration(I64_MIN, 0), MkDuration(I64_MIN + 1, 0),
      MkDuration(-14399, 0), MkDuration(-5400, 0), MkDuration(-1, -999000000) }

DurationOperands ==
    { MkDuration(0, 0), MkDuration(1, 0), MkDuration(-1, 0), MkDuration(0, 1),
      MkDuration(0, -1), MkDuration(I64_MAX, 0), MkDuration(I64_MIN, 0) }

DurationAmounts == {-10000, -1, 0, 1, 10000, I64_MAX}

IsDuration(v) == DOMAIN v = {"secs", "nanos"}

InitDuration ==
    /\ recv \in InitDurations
    /\ call = InitCall(recv)
    /\ steps = 0

DurPlus == IsDuration(recv) /\ \E b \in DurationOperands : Step("plus", <<b>>, duration_plus(recv, b))
DurMinus == IsDuration(recv) /\ \E b \in DurationOperands : Step("minus", <<b>>, duration_minus(recv, b))
DurPlusDays == IsDuration(recv) /\ \E n \in DurationAmounts : Step("plus_days", <<n>>, duration_plus_days(recv, n))
DurMinusDays == IsDuration(recv) /\ \E n \in DurationAmounts : Step("minus_days", <<n>>, duration_minus_days(recv, n))
DurPlusHours == IsDuration(recv) /\ \E n \in DurationAmounts : Step("plus_hours", <<n>>, duration_plus_hours(recv, n))
DurMinusHours == IsDuration(recv) /\ \E n \in DurationAmounts : Step("minus_hours", <<n>>, duration_minus_hours(recv, n))
DurPlusMinutes == IsDuration(recv) /\ \E n \in DurationAmounts : Step("plus_minutes", <<n>>, duration_plus_minutes(recv, n))
DurMinusMinutes == IsDuration(recv) /\ \E n \in DurationAmounts : Step("minus_minutes", <<n>>, duration_minus_minutes(recv, n))
DurPlusSeconds == IsDuration(recv) /\ \E n \in DurationAmounts : Step("plus_seconds", <<n>>, duration_plus_seconds(recv, n))
DurMinusSeconds == IsDuration(recv) /\ \E n \in DurationAmounts : Step("minus_seconds", <<n>>, duration_minus_seconds(recv, n))
DurPlusMilliseconds == IsDuration(recv) /\ \E n \in DurationAmounts : Step("plus_milliseconds", <<n>>, duration_plus_milliseconds(recv, n))
DurMinusMilliseconds == IsDuration(recv) /\ \E n \in DurationAmounts : Step("minus_milliseconds", <<n>>, duration_minus_milliseconds(recv, n))
DurPlusNanoseconds == IsDuration(recv) /\ \E n \in DurationAmounts : Step("plus_nanoseconds", <<n>>, duration_plus_nanoseconds(recv, n))
DurMinusNanoseconds == IsDuration(recv) /\ \E n \in DurationAmounts : Step("minus_nanoseconds", <<n>>, duration_minus_nanoseconds(recv, n))

\* A getter: the object held stays as it is.
Ask(op, arg, res) ==
    /\ steps < MaxSteps
    /\ call' = [op |-> op, self |-> recv, arg |-> arg, res |-> res]
    /\ recv' = recv
    /\ steps' = steps + 1

WholeUnitNames == {"weeks", "days", "hours", "minutes", "seconds"}

DurToUnit == IsDuration(recv) /\ \E u \in WholeUnitNames : Ask("to_" \o u, <<u>>, Ok(to_unit(recv, u)))
DurAbs == IsDuration(recv) /\ Step("abs", <<>>, Ok(duration_abs(recv)))

NextDuration ==
    \/ DurPlus \/ DurMinus \/ DurPlusDays \/ DurMinusDays
    \/ DurPlusHours \/ DurMinusHours \/ DurPlusMinutes \/ DurMinusMinutes
    \/ DurPlusSeconds \/ DurMinusSeconds \/ DurPlusMilliseconds \/ DurMinusMilliseconds
    \/ DurPlusNanoseconds \/ DurMinusNanoseconds
    \/ DurToUnit \/ DurAbs

SpecDuration == InitDuration /\ [][NextDuration]_vars

(***************************************************************************)
(* The LocalTime machine                                                   *)
(***************************************************************************)
InitTimes ==
    { MkTime(23, 0, 0, 0), MkTime(0, 0, 0, 0), MkTime(23, 59, 59, 999999999),
      MkTime(12, 30, 15, 500000000), MkTime(0, 0, 59, 1) }

TimeAmounts == {-25, -1, 0, 1, 2, 61, 1500, I64_MAX, I64_MIN}

IsTime(v) == DOMAIN v = {"hour", "minute", "second", "nano"}

InitTime ==
    /\ recv \in InitTimes
    /\ call = InitCall(recv)
    /\ steps = 0

TimePlusHours == IsTime(recv) /\ \E n \in TimeAmounts : Step("plus_hours", <<n>>, time_plus_hours(recv, n))
TimePlusMinutes == IsTime(recv) /\ \E n \in TimeAmounts : Step("plus_minutes", <<n>>, time_plus_minutes(recv, n))
TimePlusSeconds == IsTime(recv) /\ \E n \in TimeAmounts : Step("plus_seconds", <<n>>, time_plus_seconds(recv, n))
TimePlusMilliseconds == IsTime(recv) /\ \E n \in TimeAmounts : Step("plus_milliseconds", <<n>>, time_plus_milliseconds(recv, n))
TimePlusNanoseconds == IsTime(recv) /\ \E n \in TimeAmounts : Step("plus_nanoseconds", <<n>>, time_plus_nanoseconds(recv, n))
TimeMinusHours == IsTime(recv) /\ \E n \in TimeAmounts : Step("minus_hours", <<n>>, time_minus_hours(recv, n))
TimeMinusMinutes == IsTime(recv) /\ \E n \in TimeAmounts : Step("minus_minutes", <<n>>, time_minus_minutes(recv, n))
TimeMinusSeconds == IsTime(recv) /\ \E n \in TimeAmounts : Step("minus_seconds", <<n>>, time_minus_seconds(recv, n))
TimeMinusMilliseconds == IsTime(recv) /\ \E n \in TimeAmounts : Step("minus_milliseconds", <<n>>, time_minus_milliseconds(recv, n))
TimeMinusNanoseconds == IsTime(recv) /\ \E n \in TimeAmounts : Step("minus_nanoseconds", <<n>>, time_minus_nanoseconds(recv, n))

NextTime ==
    \/ TimePlusHours \/ TimePlusMinutes \/ TimePlusSeconds \/ TimePlusMilliseconds \/ TimePlusNanoseconds
    \/ TimeMinusHours \/ TimeMinusMinutes \/ TimeMinusSeconds \/ TimeMinusMilliseconds \/ TimeMinusNanoseconds

SpecTime == InitTime /\ [][NextTime]_vars

(***************************************************************************)
(* The field machine: validating factories and field setters of LocalDate  *)
(* and LocalTime                                                           *)
(***************************************************************************)
InitFields == { MkDate(2021, 4, 30), MkDate(2020, 2, 29), MkTime(12, 30, 15, 0) }

FactoryYears == {2020, 2021}
HourValues == {-1, 0, 23, 24, 256, 279}
MinuteValues == {-1, 0, 59, 60, 261}
U8Values == {0, 23, 24, 59, 60, 255}
MilliValues == {0, 999, 1000, 65535}
NanoValues == {0, 999999999, 1000000000}

InitField ==
    /\ recv \in InitFields
    /\ call = InitCall(recv)
    /\ steps = 0

LocalDateOf ==
    /\ steps < MaxSteps
    /\ \E y \in FactoryYears, m \in MonthValues, d \in DayValues :
        Step("LocalDate::of", <<y, m, d>>, LocalDate_of(y, m, d))
LocalTimeOf ==
    /\ steps < MaxSteps
    /\ \E h \in HourValues, m \in MinuteValues, s \in MinuteValues :
        Step("LocalTime::of", <<h, m, s>>, LocalTime_of(h, m, s))
WithHour == IsTime(recv) /\ \E h \in U8Values : Step("with_hour", <<h>>, with_hour(recv, h))
WithMinute == IsTime(recv) /\ \E m \in U8Values : Step("with_minute", <<m>>, with_minute(recv, m))
WithSecond == IsTime(recv) /\ \E x \in U8Values : Step("with_second", <<x>>, with_second(recv, x))
WithMillisecond == IsTime(recv) /\ \E ms \in MilliValues : Step("with_millisecond", <<ms>>, with_millisecond(recv, ms))
WithNanosecond == IsTime(recv) /\ \E ns \in NanoValues : Step("with_nanosecond", <<ns>>, with_nanosecond(recv, ns))

NextField ==
    \/ LocalDateOf \/ LocalTimeOf
    \/ WithYear \/ WithMonth \/ WithDayOfYear \/ WithDayOfMonth
    \/ WithHour \/ WithMinute \/ WithSecond \/ WithMillisecond \/ WithNanosecond

SpecField == InitField /\ [][NextField]_vars

(***************************************************************************)
(* plus_years / minus_years of the composite types and of YearMonth        *)
(***************************************************************************)
MkLocalDate(d) == [kind |-> "LocalDate", date |-> d]
MkLocalDateTime(d, t) == [kind |-> "LocalDateTime", date |-> d, time |-> t]
MkOffsetDateTime(d, t, off) == [kind |-> "OffsetDateTime", date |-> d, time |-> t, offset |-> off]
MkZonedDateTime(d, t, off) == [kind |-> "ZonedDateTime", date |-> d, time |-> t, offset |-> off]
MkYearMonth(y, m) == [kind |-> "YearMonth", year |-> y, month |-> m]

\* LocalDateTime::plus_years
ldt_plus_years(x, years) ==
    LET r == plus_years(x.date, years)
    IN IF r.ok THEN Ok(MkLocalDateTime(r.val, x.time)) ELSE r

\* LocalDateTime::minus_years
ldt_minus_years(x, years) ==
    LET r == minus_years(x.date, years)
    IN IF r.ok THEN Ok(MkLocalDateTime(r.val, x.time)) ELSE r

\* OffsetDateTime::plus_years
odt_plus_years(x, years) ==
    LET new_year == x.date.year + AsI32(years)
    IN IF ~InI32(new_year) THEN Panic("year overflow in plus_years")
       ELSE LET day == Min(x.date.day, days_in_month(x.date.month, new_year))
                r == from_calendar_date(new_year, x.date.month, day)
            IN IF r.ok THEN Ok(MkOffsetDateTime(r.val, x.time, x.offset))
               ELSE Panic("called Result::unwrap() on an Err value")

\* OffsetDateTime::minus_years
odt_minus_years(x, years) ==
    IF ~InI64(-years) THEN Panic("attempt to negate with overflow")
    ELSE odt_plus_years(x, -years)

\* ZonedDateTime::plus_years
zdt_plus_years(x, years) ==
    LET r == ldt_plus_years(MkLocalDateTime(x.date, x.time), years)
    IN IF r.ok THEN Ok(MkZonedDateTime(r.val.date, r.val.time, x.offset)) ELSE r

\* ZonedDateTime::minus_years
zdt_minus_years(x, years) ==
    IF ~InI64(-years) THEN Panic("attempt to negate with overflow")
    ELSE zdt_plus_years(x, -years)

\* YearMonth::plus_years
ym_plus_years(x, years) ==
    IF ~AddFitsI64(x.year, years) THEN Panic("attempt to add with overflow")
    ELSE LET ny == x.year + years
         IN IF ny > I32_MAX \/ ny < I32_MIN THEN Panic("year overflow")
            ELSE Ok(MkYearMonth(ny, x.month))

\* YearMonth::minus_years
ym_minus_years(x, years) ==
    IF ~InI64(-years) THEN Panic("attempt to negate with overflow")
    ELSE ym_plus_years(x, -years)

\* LocalDate::plus_years / minus_years on a tagged date
ld_plus_years(x, years) ==
    LET r == plus_years(x.date, years) IN IF r.ok THEN Ok(MkLocalDate(r.val)) ELSE r

ld_minus_years(x, years) ==
    LET r == minus_years(x.date, years) IN IF r.ok THEN Ok(MkLocalDate(r.val)) ELSE r

YearDates ==
    { MkDate(2020, 2, 29), MkDate(2021, 3, 14), MkDate(0, 3, 15),
      MkDate(MAX_YEAR, 12, 31), MkDate(MIN_YEAR, 1, 1) }

InitYearValues ==
    { MkLocalDate(d) : d \in YearDates }
    \cup { MkLocalDateTime(d, MkTime(12, 30, 15, 0)) : d \in YearDates }
    \cup { MkOffsetDateTime(d, MkTime(12, 30, 15, 0), 3600) : d \in YearDates }
    \cup { MkZonedDateTime(d, MkTime(12, 30, 15, 0), 3600) : d \in YearDates }
    \cup { MkYearMonth(2020, 2), MkYearMonth(MAX_YEAR, 12), MkYearMonth(I32_MAX, 6),
           MkYearMonth(I32_MIN, 1) }

WideYearAmounts ==
    YearAmounts \cup {2 * (I32_MAX + 1), 2 * (I32_MAX + 1) + 1, -2 * (I32_MAX + 1)}

HasKind(v, k) == "kind" \in DOMAIN v /\ v.kind = k

InitYears ==
    /\ recv \in InitYearValues
    /\ call = InitCall(recv)
    /\ steps = 0

LdPlusYears == HasKind(recv, "LocalDate") /\ \E n \in WideYearAmounts : Step("plus_years", <<n>>, ld_plus_years(recv, n))
LdMinusYears == HasKind(recv, "LocalDate") /\ \E n \in WideYearAmounts : Step("minus_years", <<n>>, ld_minus_years(recv, n))
LdtPlusYears == HasKind(recv, "LocalDateTime") /\ \E n \in WideYearAmounts : Step("plus_years", <<n>>, ldt_plus_years(recv, n))
LdtMinusYears == HasKind(recv, "LocalDateTime") /\ \E n \in WideYearAmounts : Step("minus_years", <<n>>, ldt_minus_years(recv, n))
OdtPlusYears == HasKind(recv, "OffsetDateTime") /\ \E n \in WideYearAmounts : Step("plus_years", <<n>>, odt_plus_years(recv, n))
OdtMinusYears == HasKind(recv, "OffsetDateTime") /\ \E n \in WideYearAmounts : Step("minus_years", <<n>>, odt_minus_years(recv, n))
ZdtPlusYears == HasKind(recv, "ZonedDateTime") /\ \E n \in WideYearAmounts : Step("plus_years", <<n>>, zdt_plus_years(recv, n))
ZdtMinusYears == HasKind(recv, "ZonedDateTime") /\ \E n \in WideYearAmounts : Step("minus_years", <<n>>, zdt_minus_years(recv, n))
YmPlusYears == HasKind(recv, "YearMonth") /\ \E n \in WideYearAmounts : Step("plus_years", <<n>>, ym_plus_years(recv, n))
YmMinusYears == HasKind(recv, "YearMonth") /\ \E n \in WideYearAmounts : Step("minus_years", <<n>>, ym_minus_years(recv, n))

NextYears ==
    \/ LdPlusYears \/ LdMinusYears \/ LdtPlusYears \/ LdtMinusYears
    \/ OdtPlusYears \/ OdtMinusYears \/ ZdtPlusYears \/ ZdtMinusYears
    \/ YmPlusYears \/ YmMinusYears

SpecYears == InitYears /\ [][NextYears]_vars

(***************************************************************************)
(* Composite date-time types: LocalDateTime wraps time::PrimitiveDateTime  *)
(* (a date and a time of day); OffsetDateTime and ZonedDateTime wrap       *)
(* time::OffsetDateTime (a local date and time with a UTC offset in        *)
(* seconds).                                                               *)
(***************************************************************************)
\* The units of the Duration-based plus_X / minus_X methods.
DurationUnits == {"weeks", "days", "hours", "minutes", "seconds", "milliseconds", "nanoseconds"}

\* Duration::of_weeks(n) .. Duration::of_nanoseconds(n), by unit name.
DurationOf(unit, n) ==
    CASE unit = "weeks" -> of_weeks(n)
      [] unit = "days" -> of_days(n)
      [] unit = "hours" -> of_hours(n)
      [] unit = "minutes" -> of_minutes(n)
      [] unit = "seconds" -> of_seconds(n)
      [] unit = "milliseconds" -> of_milliseconds(n)
      [] unit = "nanoseconds" -> of_nanoseconds(n)

\* time::Duration::is_negative
duration_is_negative(d) == d.secs < 0 \/ d.nanos < 0

\* time::Time::adjusting_add / adjusting_sub: the day carried out of the time
\* of day (-1 Previous, 0 None, 1 Next).
time_date_adjustment(t, dur, sign) ==
    LET ns == Cascade(t.nano + sign * dur.nanos, NANOS_PER_SECOND)
        s  == Cascade(t.second + sign * Rem(dur.secs, 60) + ns[2], 60)
        m  == Cascade(t.minute + sign * Rem(Quot(dur.secs, 60), 60) + s[2], 60)
        h  == Cascade(t.hour + sign * Rem(Quot(dur.secs, 3600), 24) + m[2], 24)
    IN h[2]

\* time::Date::next_day / previous_day (dir = 1 / -1): None at Date::MAX /
\* Date::MIN.
date_step(date, dir) == from_julian_day(to_julian_day(date) + dir)

MkDateTime(d, t) == [date |-> d, time |-> t]

\* time::PrimitiveDateTime::MAX and MIN
PDT_MAX == MkDateTime(MkDate(MAX_YEAR, 12, 31), MkTime(23, 59, 59, NANOS_PER_SECOND - 1))
PDT_MIN == MkDateTime(MkDate(MIN_YEAR, 1, 1), MkTime(0, 0, 0, 0))

\* time::PrimitiveDateTime::checked_add / checked_sub (sign = 1 / -1): the
\* time of day is adjusted, the date moves by the whole days of the duration
\* and then by the day carried out of the time of day.
pdt_checked(x, dur, sign) ==
    LET t == time_adjusting(x.time, dur, sign)
        adj == time_date_adjustment(x.time, dur, sign)
        d == date_checked(x.date, dur, sign)
    IN IF ~d.ok THEN Panic("None")
       ELSE IF adj = 0 THEN Ok(MkDateTime(d.val, t))
       ELSE LET d2 == date_step(d.val, adj)
            IN IF d2.ok THEN Ok(MkDateTime(d2.val, t)) ELSE Panic("None")

\* time::PrimitiveDateTime::saturating_add / saturating_sub (sign = 1 / -1)
pdt_saturating(x, dur, sign) ==
    LET r == pdt_checked(x, dur, sign)
    IN IF r.ok THEN r.val
       ELSE IF duration_is_negative(dur) = (sign = 1) THEN PDT_MIN ELSE PDT_MAX

\* LocalDateTime::plus_months
ldt_plus_months(x, months) ==
    LET r == plus_months(x.date, months)
    IN IF r.ok THEN Ok(MkLocalDateTime(r.val, x.time)) ELSE r

\* LocalDateTime::minus_months
ldt_minus_months(x, months) ==
    LET r == minus_months(x.date, months)
    IN IF r.ok THEN Ok(MkLocalDateTime(r.val, x.time)) ELSE r

\* LocalDateTime::plus_weeks .. plus_nanoseconds (sign = 1) and minus_weeks ..
\* minus_nanoseconds (sign = -1): build the Duration, then add or subtract it
\* saturating.
ldt_saturating(x, unit, n, sign) ==
    LET dur == DurationOf(unit, n)
    IN IF ~dur.ok THEN dur
       ELSE LET r == pdt_saturating(MkDateTime(x.date, x.time), dur.val, sign)
            IN Ok(MkLocalDateTime(r.date, r.time))

ldt_plus(x, unit, n) == ldt_saturating(x, unit, n, 1)
ldt_minus(x, unit, n) == ldt_saturating(x, unit, n, -1)

\* A checked addition that hands back the result at offset zero.
offset_checked_utc(x, dur, sign) ==
    LET r == pdt_checked(MkDateTime(x.date, x.time), dur, sign)
    IN IF r.ok THEN Ok([x EXCEPT !.date = r.val.date, !.time = r.val.time, !.offset = 0]) ELSE r

\* time::OffsetDateTime::checked_add / checked_sub: the local date and time
\* move, the offset is kept.
offset_checked(x, dur, sign) ==
    LET r == pdt_checked(MkDateTime(x.date, x.time), dur, sign)
    IN IF r.ok THEN Ok([x EXCEPT !.date = r.val.date, !.time = r.val.time]) ELSE r

\* OffsetDateTime::plus_weeks .. plus_nanoseconds and minus_weeks ..
\* minus_nanoseconds, and the same methods of ZonedDateTime: build the
\* Duration, then checked_add / checked_sub with expect.
offset_arith(x, unit, n, sign) ==
    LET dur == DurationOf(unit, n)
    IN IF ~dur.ok THEN dur
       ELSE LET r == offset_checked(x, dur.val, sign)
            IN IF r.ok THEN r
               ELSE Panic("Date overflow in " \o (IF sign = 1 THEN "plus_" ELSE "minus_") \o unit)

\* OffsetDateTime::plus_months and ZonedDateTime::plus_months (the same
\* code): i64 arithmetic with the truncating / and a remainder made
\* non-negative, the year narrowed to i32.
offset_plus_months(x, months) ==
    IF ~AddFitsI64(x.date.year * 12 + (x.date.month - 1), months)
    THEN Panic("attempt to add with overflow")
    ELSE LET total_months == x.date.year * 12 + (x.date.month - 1) + months
             new_year == AsI32(Quot(total_months, 12))
             new_month == Rem(Rem(total_months, 12) + 12, 12) + 1
             new_day == Min(x.date.day, days_in_month(new_month, new_year))
             r == from_calendar_date(new_year, new_month, new_day)
         IN IF r.ok THEN Ok([x EXCEPT !.date = r.val])
            ELSE Panic("valid date guaranteed by clamping")

odt_plus_months(x, months) == offset_plus_months(x, months)
zdt_plus_months(x, months) == offset_plus_months(x, months)

\* OffsetDateTime::minus_months
odt_minus_months(x, months) ==
    IF ~InI64(-months) THEN Panic("attempt to negate with overflow")
    ELSE odt_plus_months(x, -months)

\* ZonedDateTime::minus_months
zdt_minus_months(x, months) ==
    IF ~InI64(-months) THEN Panic("attempt to negate with overflow")
    ELSE zdt_plus_months(x, -months)

odt_plus(x, unit, n) == offset_arith(x, unit, n, 1)
odt_minus(x, unit, n) == offset_arith(x, unit, n, -1)
zdt_plus(x, unit, n) == offset_arith(x, unit, n, 1)
zdt_minus(x, unit, n) == offset_arith(x, unit, n, -1)

\* The fields of the with_X setters.
DateFields == {"year", "month", "day_of_year", "day_of_month"}
TimeFields == {"hour", "minute", "second", "millisecond", "nanosecond"}

\* time::Date::replace_ordinal
replace_ordinal(date, ordinal) ==
    IF ordinal < 1 \/ ordinal > (IF is_leap_year(date.year) THEN 366 ELSE 365)
    THEN Panic("ordinal out of range")
    ELSE Ok(FromOrdinal(date.year, ordinal))

\* OffsetDateTime::with_year .. with_nanosecond and the same methods of
\* ZonedDateTime: time::OffsetDateTime::replace_X on the local date and
\* time, the offset kept.  with_month goes through Month::of.
offset_with(x, field, v) ==
    LET d == CASE field = "year" -> from_calendar_date(v, x.date.month, x.date.day)
               [] field = "month" ->
                      IF v \notin 1..12 THEN Panic("invalid month value (1-12)")
                      ELSE from_calendar_date(x.date.year, v, x.date.day)
               [] field = "day_of_year" -> replace_ordinal(x.date, v)
               [] field = "day_of_month" -> from_calendar_date(x.date.year, x.date.month, v)
               [] OTHER -> Ok(x.date)
        t == CASE field = "hour" -> with_hour(x.time, v)
               [] field = "minute" -> with_minute(x.time, v)
               [] field = "second" -> with_second(x.time, v)
               [] field = "millisecond" -> with_millisecond(x.time, v)
               [] field = "nanosecond" -> with_nanosecond(x.time, v)
               [] OTHER -> Ok(x.time)
    IN IF d.ok /\ t.ok THEN Ok([x EXCEPT !.date = d.val, !.time = t.val])
       ELSE Panic("invalid " \o field)

odt_with(x, field, v) == offset_with(x, field, v)
zdt_with(x, field, v) == offset_with(x, field, v)

\* OffsetDateTime::to_local_date_time / ZonedDateTime::to_local_date_time
to_local_date_time(x) == MkLocalDateTime(x.date, x.time)

(***************************************************************************)
(* The date-time machine: one LocalDateTime, OffsetDateTime or             *)
(* ZonedDateTime, one operation per step (specification SpecDateTime)      *)
(***************************************************************************)
DateTimeDates ==
    { MkDate(2020, 2, 29), MkDate(2021, 12, 31), MkDate(0, 3, 15), MkDate(-1, 3, 15),
      MkDate(MAX_YEAR, 12, 31), MkDate(MIN_YEAR, 1, 1) }

DateTimeTimes ==
    { MkTime(0, 0, 0, 0), MkTime(12, 30, 15, 500000000),
      MkTime(23, 59, 59, NANOS_PER_SECOND - 1) }

InitDateTimeValues ==
    { MkLocalDateTime(d, t) : d \in DateTimeDates, t \in DateTimeTimes }
    \cup { MkOffsetDateTime(d, t, 3600) : d \in DateTimeDates, t \in DateTimeTimes }
    \cup { MkZonedDateTime(d, t, -18000) : d \in DateTimeDates, t \in DateTimeTimes }

UnitAmounts == {-1, 1, 36, I64_MAX}
DateTimeMonthAmounts == {-13, 0, 1, I32_MAX}
DateTimeYearAmounts == {-1, 1, 2 * (I32_MAX + 1)}

\* The values tried for each field of with_X (within the argument's type).
FieldValues(field) ==
    CASE field = "year" -> {2021, MAX_YEAR + 1}
      [] field = "month" -> {0, 2, 12}
      [] field = "day_of_year" -> {0, 60, 366}
      [] field = "day_of_month" -> {0, 15, 31}
      [] field = "hour" -> {0, 23, 24}
      [] field = "minute" -> {30, 60}
      [] field = "second" -> {59, 60}
      [] field = "millisecond" -> {999, 1000}
      [] field = "nanosecond" -> {0, NANOS_PER_SECOND}

InitDateTime ==
    /\ recv \in InitDateTimeValues
    /\ call = InitCall(recv)
    /\ steps = 0

\* One call on the object held; the number of calls is bounded by MaxCalls.
Call(op, arg, res) ==
    /\ steps < MaxCalls
    /\ call' = [op |-> op, self |-> recv, arg |-> arg, res |-> res]
    /\ recv' = IF res.ok THEN res.val ELSE recv
    /\ steps' = steps + 1

LdtYears ==
    /\ HasKind(recv, "LocalDateTime")
    /\ \E n \in DateTimeYearAmounts :
           \/ Call("plus_years", <<n>>, ldt_plus_years(recv, n))
           \/ Call("minus_years", <<n>>, ldt_minus_years(recv, n))
LdtMonths ==
    /\ HasKind(recv, "LocalDateTime")
    /\ \E n \in DateTimeMonthAmounts :
           \/ Call("plus_months", <<n>>, ldt_plus_months(recv, n))
           \/ Call("minus_months", <<n>>, ldt_minus_months(recv, n))
LdtPlus ==
    /\ HasKind(recv, "LocalDateTime")
    /\ \E u \in DurationUnits, n \in UnitAmounts : Call("plus_" \o u, <<n>>, ldt_plus(recv, u, n))
LdtMinus ==
    /\ HasKind(recv, "LocalDateTime")
    /\ \E u \in DurationUnits, n \in UnitAmounts : Call("minus_" \o u, <<n>>, ldt_minus(recv, u, n))

OdtYears ==
    /\ HasKind(recv, "OffsetDateTime")
    /\ \E n \in DateTimeYearAmounts :
           \/ Call("plus_years", <<n>>, odt_plus_years(recv, n))
           \/ Call("minus_years", <<n>>, odt_minus_years(recv, n))
OdtMonths ==
    /\ HasKind(recv, "OffsetDateTime")
    /\ \E n \in DateTimeMonthAmounts :
           \/ Call("plus_months", <<n>>, odt_plus_months(recv, n))
           \/ Call("minus_months", <<n>>, odt_minus_months(recv, n))
OdtPlus ==
    /\ HasKind(recv, "OffsetDateTime")
    /\ \E u \in DurationUnits, n \in UnitAmounts : Call("plus_" \o u, <<n>>, odt_plus(recv, u, n))
OdtMinus ==
    /\ HasKind(recv, "OffsetDateTime")
    /\ \E u \in DurationUnits, n \in UnitAmounts : Call("minus_" \o u, <<n>>, odt_minus(recv, u, n))
OdtWith ==
    /\ HasKind(recv, "OffsetDateTime")
    /\ \E f \in DateFields \cup TimeFields :
           \E v \in FieldValues(f) : Call("with_" \o f, <<v>>, odt_with(recv, f, v))

ZdtYears ==
    /\ HasKind(recv, "ZonedDateTime")
    /\ \E n \in DateTimeYearAmounts :
           \/ Call("plus_years", <<n>>, zdt_plus_years(recv, n))
           \/ Call("minus_years", <<n>>, zdt_minus_years(recv, n))
ZdtMonths ==
    /\ HasKind(recv, "ZonedDateTime")
    /\ \E n \in DateTimeMonthAmounts :
           \/ Call("plus_months", <<n>>, zdt_plus_months(recv, n))
           \/ Call("minus_months", <<n>>, zdt_minus_months(recv, n))
ZdtPlus ==
    /\ HasKind(recv, "ZonedDateTime")
    /\ \E u \in DurationUnits, n \in UnitAmounts : Call("plus_" \o u, <<n>>, zdt_plus(recv, u, n))
ZdtMinus ==
    /\ HasKind(recv, "ZonedDateTime")
    /\ \E u \in DurationUnits, n \in UnitAmounts : Call("minus_" \o u, <<n>>, zdt_minus(recv, u, n))
ZdtWith ==
    /\ HasKind(recv, "ZonedDateTime")
    /\ \E f \in DateFields \cup TimeFields :
           \E v \in FieldValues(f) : Call("with_" \o f, <<v>>, zdt_with(recv, f, v))

NextDateTime ==
    \/ LdtYears \/ LdtMonths \/ LdtPlus \/ LdtMinus
    \/ OdtYears \/ OdtMonths \/ OdtPlus \/ OdtMinus \/ OdtWith
    \/ ZdtYears \/ ZdtMonths \/ ZdtPlus \/ ZdtMinus \/ ZdtWith

SpecDateTime == InitDateTime /\ [][NextDateTime]_vars

(***************************************************************************)
(* ChronoUnit: unit-generic addition over Instant, LocalDate, LocalTime    *)
(* and LocalDateTime                                                       *)
(***************************************************************************)
TimeBasedUnits == {"Nanos", "Millis", "Seconds", "Minutes", "Hours", "HalfDays"}
DateBasedUnits == {"Days", "Weeks", "Months", "Years"}
ChronoUnits == TimeBasedUnits \cup DateBasedUnits

\* impl fmt::Display for ChronoUnit
DisplayName(unit) ==
    CASE unit = "Nanos" -> "NANOS"
      [] unit = "Millis" -> "MILLIS"
      [] unit = "Seconds" -> "SECONDS"
      [] unit = "Minutes" -> "MINUTES"
      [] unit = "Hours" -> "HOURS"
      [] unit = "HalfDays" -> "HALF_DAYS"
      [] unit = "Days" -> "DAYS"
      [] unit = "Weeks" -> "WEEKS"
      [] unit = "Months" -> "MONTHS"
      [] unit = "Years" -> "YEARS"

\* i64::saturating_mul(n, k) for a constant k > 0
saturating_mul(n, k) ==
    IF MulFitsI64(n, k) THEN n * k ELSE IF n > 0 THEN I64_MAX ELSE I64_MIN

\* Instant wraps a time::OffsetDateTime at UTC.
MkInstant(d, t) == [kind |-> "Instant", date |-> d, time |-> t]

\* Add<time::Duration> for time::OffsetDateTime, as Instant uses it.
instant_add(x, dur) ==
    LET r == pdt_checked(MkDateTime(x.date, x.time), dur, 1)
    IN IF r.ok THEN Ok(MkInstant(r.val.date, r.val.time))
       ELSE Panic("resulting value is out of range")

\* Instant::plus_seconds, plus_milliseconds, plus_nanoseconds
instant_plus_seconds(x, n) == instant_add(x, DurationSeconds(n).val)
instant_plus_milliseconds(x, n) == instant_add(x, DurationMilliseconds(n).val)
instant_plus_nanoseconds(x, n) == instant_add(x, DurationNanoseconds(n).val)

\* ChronoAdd for Instant: plus_nanoseconds, plus_milliseconds and plus_seconds
\* each add the time::Duration of their amount.
cu_add_instant(x, unit, amount) ==
    IF unit \in DateBasedUnits
    THEN Panic("ChronoUnit::" \o unit
                 \o " not supported for Instant::add_to (no calendar context)")
    ELSE instant_add(x,
             CASE unit = "Nanos" -> DurationNanoseconds(amount).val
               [] unit = "Millis" -> DurationMilliseconds(amount).val
               [] unit = "Seconds" -> DurationSeconds(amount).val
               [] unit = "Minutes" -> DurationSeconds(saturating_mul(amount, 60)).val
               [] unit = "Hours" -> DurationSeconds(saturating_mul(amount, 3600)).val
               [] unit = "HalfDays" -> DurationSeconds(saturating_mul(amount, 43200)).val)

\* ChronoAdd for LocalDate with the unsupported units ignored.
cu_add_local_date_lenient(d, unit, amount) ==
    CASE unit = "Days" -> plus_days(d, amount)
      [] unit = "Weeks" -> plus_weeks(d, amount)
      [] unit = "Months" -> plus_months(d, AsI32(amount))
      [] unit = "Years" -> plus_years(d, amount)
      [] OTHER -> Ok(d)

\* ChronoAdd for LocalDate
cu_add_local_date(d, unit, amount) ==
    CASE unit = "Days" -> plus_days(d, amount)
      [] unit = "Weeks" -> plus_weeks(d, amount)
      [] unit = "Months" -> plus_months(d, AsI32(amount))
      [] unit = "Years" -> plus_years(d, amount)
      [] OTHER -> Panic(DisplayName(unit) \o " not supported for LocalDate::add_to")

\* ChronoAdd for LocalTime: every plus_X of LocalTime adds Duration::of_X of
\* its amount.
cu_add_local_time(t, unit, amount) ==
    IF unit \in DateBasedUnits
    THEN Panic(DisplayName(unit) \o " not supported for LocalTime::add_to")
    ELSE time_apply(t,
             CASE unit = "Nanos" -> of_nanoseconds(amount)
               [] unit = "Millis" -> of_milliseconds(amount)
               [] unit = "Seconds" -> of_seconds(amount)
               [] unit = "Minutes" -> of_minutes(amount)
               [] unit = "Hours" -> of_hours(amount)
               [] unit = "HalfDays" -> of_hours(saturating_mul(amount, 12)),
             1)

\* ChronoAdd for LocalDateTime: plus_weeks .. plus_nanoseconds by the name of
\* the unit of the method called.
cu_add_local_date_time(x, unit, amount) ==
    CASE unit = "Months" -> ldt_plus_months(x, AsI32(amount))
      [] unit = "Years" -> ldt_plus_years(x, amount)
      [] OTHER ->
           ldt_plus(x,
               CASE unit = "Nanos" -> "nanoseconds"
                 [] unit = "Millis" -> "milliseconds"
                 [] unit = "Seconds" -> "seconds"
                 [] unit = "Minutes" -> "minutes"
                 [] unit \in {"Hours", "HalfDays"} -> "hours"
                 [] unit = "Days" -> "days"
                 [] unit = "Weeks" -> "weeks",
               IF unit = "HalfDays" THEN saturating_mul(amount, 12) ELSE amount)

\* The name of the type of a temporal value.
TypeName(v) ==
    IF IsDate(v) THEN "LocalDate" ELSE IF IsTime(v) THEN "LocalTime" ELSE v.kind

\* ChronoUnit::add_to: dispatches on the type of the temporal.
add_to(unit, temporal, amount) ==
    CASE TypeName(temporal) = "Instant" -> cu_add_instant(temporal, unit, amount)
      [] TypeName(temporal) = "LocalDate" -> cu_add_local_date(temporal, unit, amount)
      [] TypeName(temporal) = "LocalTime" -> cu_add_local_time(temporal, unit, amount)
      [] TypeName(temporal) = "LocalDateTime" -> cu_add_local_date_time(temporal, unit, amount)

(***************************************************************************)
(* The ChronoUnit machine: one temporal, one add_to per call               *)
(***************************************************************************)
ChronoInstants ==
    { MkInstant(MkDate(1970, 1, 1), MkTime(0, 0, 0, 0)),
      MkInstant(MkDate(1970, 1, 1), MkTime(1, 1, 1, 0)),
      MkInstant(MkDate(2021, 12, 31), MkTime(23, 59, 59, NANOS_PER_SECOND - 1)),
      MkInstant(MkDate(MAX_YEAR, 12, 31), MkTime(12, 0, 0, 0)) }

ChronoDates ==
    { MkDate(2020, 1, 31), MkDate(2021, 3, 14), MkDate(MAX_YEAR, 12, 31) }

ChronoTimes == { MkTime(0, 0, 0, 0), MkTime(12, 30, 15, 500000000), MkTime(23, 59, 59, 999999999) }

ChronoDateTimes ==
    { MkLocalDateTime(d, t) : d \in ChronoDates, t \in { MkTime(13, 30, 15, 500000000) } }

\* Amounts: small ones, one that crosses noon and midnight, one beyond 32
\* bits whose low 32 bits are 1, and the largest 64-bit amount.
ChronoAmounts == {-1, 0, 1, 25, 2 * (I32_MAX + 1) + 1, I64_MAX}

InitChrono ==
    /\ recv \in ChronoInstants \cup ChronoDates \cup ChronoTimes \cup ChronoDateTimes
    /\ call = InitCall(recv)
    /\ steps = 0

AddTo(unit) ==
    \E n \in ChronoAmounts : Call("add_to", <<unit, n>>, add_to(unit, recv, n))

InstantAddTo == HasKind(recv, "Instant") /\ steps < MaxCalls /\ \E u \in ChronoUnits : AddTo(u)
LocalDateAddTo == IsDate(recv) /\ steps < MaxCalls /\ \E u \in ChronoUnits : AddTo(u)
LocalTimeAddTo == IsTime(recv) /\ steps < MaxCalls /\ \E u \in ChronoUnits : AddTo(u)
LocalDateTimeAddTo == HasKind(recv, "LocalDateTime") /\ steps < MaxCalls /\ \E u \in ChronoUnits : AddTo(u)

NextChrono == InstantAddTo \/ LocalDateAddTo \/ LocalTimeAddTo \/ LocalDateTimeAddTo

SpecChrono == InitChrono /\ [][NextChrono]_vars

(***************************************************************************)
(* Time-unit arithmetic of Instant, LocalTime and LocalDateTime by unit    *)
(***************************************************************************)
\* Sub<time::Duration> for time::OffsetDateTime taken as an addition.
instant_sub_added(x, dur) ==
    LET r == pdt_checked(MkDateTime(x.date, x.time), dur, 1)
    IN IF r.ok THEN Ok(MkInstant(r.val.date, r.val.time))
       ELSE Panic("resulting value is out of range")

\* Sub<time::Duration> for time::OffsetDateTime, as Instant uses it.
instant_sub(x, dur) ==
    LET r == pdt_checked(MkDateTime(x.date, x.time), dur, -1)
    IN IF r.ok THEN Ok(MkInstant(r.val.date, r.val.time))
       ELSE Panic("resulting value is out of range")

\* The time units each type has a plus_X and a minus_X for.
TimeUnitsOf(x) ==
    IF HasKind(x, "Instant") THEN {"seconds", "milliseconds", "nanoseconds"}
    ELSE {"hours", "minutes", "seconds", "milliseconds", "nanoseconds"}

\* x.plus_X(n) (sign = 1) and x.minus_X(n) (sign = -1) for X the unit named:
\* Instant::plus_seconds .. minus_nanoseconds, LocalTime::plus_hours ..
\* minus_nanoseconds, LocalDateTime::plus_hours .. minus_nanoseconds.
time_unit_op(x, unit, n, sign) ==
    IF IsTime(x) THEN time_apply(x, DurationOf(unit, n), sign)
    ELSE IF HasKind(x, "LocalDateTime") THEN ldt_saturating(x, unit, n, sign)
    ELSE IF sign = 1 THEN instant_add(x, DurationOf(unit, n).val)
    ELSE instant_sub(x, DurationOf(unit, n).val)

TimeUnitAmounts == {-25, -1, 0, 1, 25, 61, 90000, I64_MAX, I64_MIN}

InitTimeUnits ==
    /\ recv \in ChronoInstants \cup ChronoTimes \cup ChronoDateTimes
    /\ call = InitCall(recv)
    /\ steps = 0

TimeUnitCall(sign) ==
    \E u \in TimeUnitsOf(recv), n \in TimeUnitAmounts :
        Call((IF sign = 1 THEN "plus_" ELSE "minus_") \o u, <<n, u>>, time_unit_op(recv, u, n, sign))

InstantPlus == HasKind(recv, "Instant") /\ steps < MaxCalls /\ TimeUnitCall(1)
InstantMinus == HasKind(recv, "Instant") /\ steps < MaxCalls /\ TimeUnitCall(-1)
LocalTimePlus == IsTime(recv) /\ steps < MaxCalls /\ TimeUnitCall(1)
LocalTimeMinus == IsTime(recv) /\ steps < MaxCalls /\ TimeUnitCall(-1)
LocalDateTimePlus == HasKind(recv, "LocalDateTime") /\ steps < MaxCalls /\ TimeUnitCall(1)
LocalDateTimeMinus == HasKind(recv, "LocalDateTime") /\ steps < MaxCalls /\ TimeUnitCall(-1)

NextTimeUnits ==
    \/ InstantPlus \/ InstantMinus \/ LocalTimePlus \/ LocalTimeMinus
    \/ LocalDateTimePlus \/ LocalDateTimeMinus

SpecTimeUnits == InitTimeUnits /\ [][NextTimeUnits]_vars

(***************************************************************************)
(* Epoch nanoseconds and the between functions.  A signed count of         *)
(* nanoseconds (the i128 of the program) is held exactly as whole days d,  *)
(* seconds of the day s in 0..86399 and nanoseconds of the second n in     *)
(* 0..999999999, standing for d * 86400 * 10^9 + s * 10^9 + n.             *)
(***************************************************************************)
Ns(d, s, n) ==
    LET s1 == s + (n \div NANOS_PER_SECOND)
    IN [d |-> d + (s1 \div SECONDS_PER_DAY), s |-> s1 % SECONDS_PER_DAY, n |-> n % NANOS_PER_SECOND]

NsZero == Ns(0, 0, 0)
NsAdd(a, b) == Ns(a.d + b.d, a.s + b.s, a.n + b.n)
NsSub(a, b) == Ns(a.d - b.d, a.s - b.s, a.n - b.n)
NsNeg(a) == NsSub(NsZero, a)
NsLess(a, b) ==
    \/ a.d < b.d
    \/ a.d = b.d /\ a.s < b.s
    \/ a.d = b.d /\ a.s = b.s /\ a.n < b.n
NsSign(a) == IF a.d < 0 THEN -1 ELSE IF a = NsZero THEN 0 ELSE 1
NsAbs(a) == IF a.d < 0 THEN NsNeg(a) ELSE a

\* i64::MAX, i64::MIN and 2^64 as counts of nanoseconds.
I64_MAX_NANOS == Ns(106751, 85636, 854775807)
I64_MIN_NANOS == NsNeg(Ns(106751, 85636, 854775808))
TWO_POW_64_NANOS == Ns(213503, 84873, 709551616)

\* The days from 1970-01-01 to a date.
EpochDay(date) == to_julian_day(date) - to_julian_day(MkDate(1970, 1, 1))

SecondOfDay(t) == t.hour * SECONDS_PER_HOUR + t.minute * SECONDS_PER_MINUTE + t.second

\* TemporalInstant::epoch_nanoseconds: Instant and LocalDateTime read their
\* fields as UTC, OffsetDateTime and ZonedDateTime subtract their offset.
epoch_nanoseconds(x) ==
    LET offset == IF "offset" \in DOMAIN x THEN x.offset ELSE 0
    IN Ns(EpochDay(x.date), SecondOfDay(x.time) - offset, x.time.nano)

\* unit_nanos of ChronoUnit::between
unit_nanos(unit) ==
    CASE unit = "Nanos" -> Ns(0, 0, 1)
      [] unit = "Millis" -> Ns(0, 0, 1000000)
      [] unit = "Seconds" -> Ns(0, 1, 0)
      [] unit = "Minutes" -> Ns(0, 60, 0)
      [] unit = "Hours" -> Ns(0, 3600, 0)
      [] unit = "HalfDays" -> Ns(0, 43200, 0)
      [] unit = "Days" -> Ns(1, 0, 0)
      [] unit = "Weeks" -> Ns(7, 0, 0)
      [] unit = "Months" -> Ns(30, 0, 0)
      [] unit = "Years" -> Ns(365, 0, 0)

\* The whole units of a non-negative count m, as the nanoseconds they span:
\* m minus its remainder by the unit.
WholeUnits(m, unit) ==
    LET u == unit_nanos(unit)
    IN IF u.d > 0 THEN Ns(m.d - (m.d % u.d), 0, 0)
       ELSE IF u.s > 0 THEN Ns(m.d, m.s - (m.s % u.s), 0)
       ELSE Ns(m.d, m.s, m.n - (m.n % u.n))

\* diff / unit_nanos in i128: the quotient truncates toward zero.  The
\* quotient q is held as the nanoseconds q * unit_nanos.
truncating_div(diff, unit) ==
    IF diff.d < 0 THEN NsNeg(WholeUnits(NsNeg(diff), unit)) ELSE WholeUnits(diff, unit)

\* i128 as i64 on a count of nanoseconds: reduced modulo 2^64 into the
\* range of i64.
RECURSIVE as_i64(_)
as_i64(a) ==
    IF NsLess(I64_MAX_NANOS, a) THEN as_i64(NsSub(a, TWO_POW_64_NANOS))
    ELSE IF NsLess(a, I64_MIN_NANOS) THEN as_i64(NsAdd(a, TWO_POW_64_NANOS))
    ELSE a

\* ChronoUnit::between.  The cast to i64 changes only a count of Nanos: for
\* every longer unit the count between two supported dates is below 2^63.
between(unit, start_inclusive, end_exclusive) ==
    LET diff == NsSub(epoch_nanoseconds(end_exclusive), epoch_nanoseconds(start_inclusive))
        q == truncating_div(diff, unit)
    IN IF unit = "Nanos" THEN as_i64(q) ELSE q

\* time::Duration::new(seconds, nanoseconds): a nanosecond part of the
\* opposite sign is folded into the seconds.  The seconds are held as the
\* nanoseconds they span.
duration_new(seconds, nanos) ==
    IF NsSign(seconds) > 0 /\ nanos < 0
    THEN [secs |-> NsSub(seconds, Ns(0, 1, 0)), nanos |-> nanos + NANOS_PER_SECOND]
    ELSE IF NsSign(seconds) < 0 /\ nanos > 0
    THEN [secs |-> NsAdd(seconds, Ns(0, 1, 0)), nanos |-> nanos - NANOS_PER_SECOND]
    ELSE [secs |-> seconds, nanos |-> nanos]

\* diff_ns % 1_000_000_000 as i32: the remainder has the sign of diff_ns.
remainder_nanos(diff) ==
    LET r == NsSub(diff, truncating_div(diff, "Seconds"))
    IN IF r.d < 0 THEN r.n - NANOS_PER_SECOND ELSE r.n

\* Duration::between with the difference taken in absolute value.
duration_between_absolute(start_inclusive, end_exclusive) ==
    LET diff_ns == NsAbs(NsSub(epoch_nanoseconds(end_exclusive), epoch_nanoseconds(start_inclusive)))
    IN duration_new(truncating_div(diff_ns, "Seconds"), remainder_nanos(diff_ns))

\* Duration::between.  The seconds of a difference of supported dates are
\* below 2^63, so the cast to i64 keeps them.
duration_between(start_inclusive, end_exclusive) ==
    LET diff_ns == NsSub(epoch_nanoseconds(end_exclusive), epoch_nanoseconds(start_inclusive))
    IN duration_new(truncating_div(diff_ns, "Seconds"), remainder_nanos(diff_ns))

\* TemporalInstant::epoch_seconds: time's unix_timestamp, the whole seconds
\* at or before the moment, held as the nanoseconds they span.
epoch_seconds(x) ==
    LET e == epoch_nanoseconds(x)
    IN Ns(e.d, e.s, 0)

\* TemporalInstant::epoch_milliseconds of Instant, LocalDateTime,
\* OffsetDateTime and ZonedDateTime: epoch_seconds * 1000 plus the
\* truncating remainder of the epoch nanoseconds by 10^9, divided by 1000.
\* The count of milliseconds is held as the nanoseconds it spans.
epoch_milliseconds(x) ==
    LET k == Quot(remainder_nanos(epoch_nanoseconds(x)), 1000)
    IN NsAdd(epoch_seconds(x), Ns(0, k \div 1000, (k % 1000) * 1000000))

(***************************************************************************)
(* The between machine: one temporal held, compared with another of its    *)
(* type by each call                                                       *)
(***************************************************************************)
BetweenMoments ==
    { <<MkDate(1970, 1, 1), MkTime(0, 0, 0, 0)>>,
      <<MkDate(1970, 1, 1), MkTime(1, 1, 1, 0)>>,
      <<MkDate(1969, 12, 31), MkTime(23, 59, 59, 500000000)>>,
      <<MkDate(1700, 1, 1), MkTime(0, 0, 0, 0)>>,
      <<MkDate(2100, 1, 1), MkTime(0, 0, 0, 1)>>,
      <<MkDate(MIN_YEAR, 1, 1), MkTime(0, 0, 0, 0)>>,
      <<MkDate(MAX_YEAR, 12, 31), MkTime(23, 59, 59, NANOS_PER_SECOND - 1)>> }

BetweenTemporals ==
    { MkInstant(m[1], m[2]) : m \in BetweenMoments }
    \cup { MkLocalDateTime(m[1], m[2]) : m \in BetweenMoments }
    \cup { MkOffsetDateTime(m[1], m[2], off) : m \in BetweenMoments, off \in {3600, -18000} }
    \cup { MkZonedDateTime(MkDate(2021, 3, 14), MkTime(1, 30, 0, 0), -18000),
           MkZonedDateTime(MkDate(2021, 3, 14), MkTime(7, 30, 0, 0), 3600),
           MkZonedDateTime(MkDate(2021, 11, 7), MkTime(1, 30, 0, 0), -14400) }

InitBetween ==
    /\ recv \in BetweenTemporals
    /\ call = InitCall(recv)
    /\ steps = 0

\* A function of the temporal held and another one: the temporal stays.
Query(op, arg, res) ==
    /\ steps < MaxCalls
    /\ call' = [op |-> op, self |-> recv, arg |-> arg, res |-> res]
    /\ recv' = recv
    /\ steps' = steps + 1

ChronoBetween ==
    \E unit \in ChronoUnits, end \in { v \in BetweenTemporals : v.kind = recv.kind } :
        Query("between", <<unit, end>>, Ok(between(unit, recv, end)))

DurationBetween ==
    \E end \in { v \in BetweenTemporals : v.kind = recv.kind } :
        Query("duration_between", <<end>>, Ok(duration_between(recv, end)))

EpochMilliseconds == steps < MaxCalls /\ Query("epoch_milliseconds", <<>>, Ok(epoch_milliseconds(recv)))

NextBetween == ChronoBetween \/ DurationBetween \/ EpochMilliseconds

SpecBetween == InitBetween /\ [][NextBetween]_vars

(***************************************************************************)
(* Conversions between Instant, LocalDateTime, OffsetDateTime and          *)
(* ZonedDateTime                                                           *)
(***************************************************************************)
\* The date and time of day a count of nanoseconds from the epoch falls on.
LocalOf(ns) ==
    LET date == from_julian_day(ns.d + to_julian_day(MkDate(1970, 1, 1)))
    IN IF ~date.ok THEN date
       ELSE Ok(MkDateTime(date.val,
                          MkTime(ns.s \div SECONDS_PER_HOUR,
                                 (ns.s % SECONDS_PER_HOUR) \div SECONDS_PER_MINUTE,
                                 ns.s % SECONDS_PER_MINUTE, ns.n)))

\* time::OffsetDateTime::to_offset: the same moment read at another offset;
\* it panics when the local date leaves the supported range.
to_offset(x, offset) ==
    LET local == LocalOf(NsAdd(epoch_nanoseconds(x), Ns(0, offset, 0)))
    IN IF local.ok THEN Ok([x EXCEPT !.date = local.val.date, !.time = local.val.time, !.offset = offset])
       ELSE Panic("local datetime out of valid range")

\* Instant::of_epoch_second: UNIX_EPOCH + Duration::new(epoch_second, 0),
\* the seconds held as the nanoseconds they span.
of_epoch_second(seconds) ==
    LET local == LocalOf(seconds)
    IN IF local.ok THEN Ok(MkInstant(local.val.date, local.val.time))
       ELSE Panic("resulting value is out of range")

\* OffsetDateTime::to_instant and ZonedDateTime::to_instant
to_instant(x) == of_epoch_second(epoch_seconds(x))

\* Instant::at_offset (the Instant is already at UTC)
instant_at_offset(x, offset) ==
    to_offset([x EXCEPT !.kind = "OffsetDateTime"] @@ [offset |-> 0], offset)

\* Instant::at_zone; offset is what ZoneId::to_offset answers for the zone at
\* the time of the call.
instant_at_zone(x, offset) ==
    to_offset([x EXCEPT !.kind = "ZonedDateTime"] @@ [offset |-> 0], offset)

\* OffsetDateTime::with_offset_same_instant
with_offset_same_instant(x, offset) == to_offset(x, offset)

\* ZonedDateTime::of: the local date and time assumed to be at the zone's
\* offset.
zdt_of(ldt, offset) == MkZonedDateTime(ldt.date, ldt.time, offset)

\* LocalDateTime::at_zone
ldt_at_zone(x, offset) == Ok(zdt_of(x, offset))

\* LocalDateTime::to_instant
ldt_to_instant(x, offset) ==
    LET i == of_epoch_second(epoch_seconds(x))
    IN IF ~i.ok THEN i
       ELSE LET z == instant_at_zone(i.val, offset)
            IN IF ~z.ok THEN z ELSE to_instant(z.val)

(***************************************************************************)
(* The conversion machine                                                  *)
(***************************************************************************)
\* ZoneOffset values, in seconds.
ConvertOffsets == {0, 3600, -18000, 19800, -64800}

\* Zones with the offsets ZoneId::to_offset can answer, which is the offset
\* in force at the time of the call.
ConvertZones ==
    { [id |-> "UTC", offset |-> 0],
      [id |-> "America/New_York", offset |-> -18000],
      [id |-> "America/New_York", offset |-> -14400],
      [id |-> "Europe/Paris", offset |-> 3600],
      [id |-> "Asia/Tokyo", offset |-> 32400] }

InitConvert ==
    /\ recv \in BetweenTemporals
    /\ call = InitCall(recv)
    /\ steps = 0

ToInstant ==
    /\ recv.kind \in {"OffsetDateTime", "ZonedDateTime"}
    /\ Call("to_instant", <<>>, to_instant(recv))
InstantAtOffset ==
    /\ recv.kind = "Instant"
    /\ \E o \in ConvertOffsets : Call("at_offset", <<o>>, instant_at_offset(recv, o))
InstantAtZone ==
    /\ recv.kind = "Instant"
    /\ \E z \in ConvertZones : Call("at_zone", <<z>>, instant_at_zone(recv, z.offset))
WithOffsetSameInstant ==
    /\ recv.kind = "OffsetDateTime"
    /\ \E o \in ConvertOffsets : Call("with_offset_same_instant", <<o>>, with_offset_same_instant(recv, o))
LdtToInstant ==
    /\ recv.kind = "LocalDateTime"
    /\ \E z \in ConvertZones : Call("to_instant", <<z>>, ldt_to_instant(recv, z.offset))
LdtAtZone ==
    /\ recv.kind = "LocalDateTime"
    /\ \E z \in ConvertZones : Call("at_zone", <<z>>, ldt_at_zone(recv, z.offset))

NextConvert ==
    \/ ToInstant \/ InstantAtOffset \/ InstantAtZone \/ WithOffsetSameInstant
    \/ LdtToInstant \/ LdtAtZone

SpecConvert == InitConvert /\ [][NextConvert]_vars

(***************************************************************************)
(* Year                                                                    *)
(***************************************************************************)
MkYear(y) == [kind |-> "Year", value |-> y]

\* time::Date::saturating_add of Duration::days(days), days >= 0: Date::MAX
\* when the sum leaves the supported range.
date_saturating_add_days(date, days) ==
    LET r == from_julian_day(to_julian_day(date) + days)
    IN IF r.ok THEN r.val ELSE MkDate(MAX_YEAR, 12, 31)

\* Year::at_day (the argument is a u16)
at_day(year, day_of_year) ==
    IF day_of_year = 0 THEN Panic("day-of-year must be 1..=365/366")
    ELSE LET jan1 == from_calendar_date(year.value, 1, 1)
         IN IF ~jan1.ok THEN Panic("called Result::unwrap() on an Err value")
            ELSE Ok(date_saturating_add_days(jan1.val, day_of_year - 1))

(***************************************************************************)
(* The Year machine                                                        *)
(***************************************************************************)
InitYearNumbers == (-401 .. 401) \cup (1896 .. 2104) \cup {MIN_YEAR, MIN_YEAR + 1, MAX_YEAR - 1, MAX_YEAR}

DayOfYearArguments == {0, 1, 60, 365, 366, 367, 65535}

InitYear ==
    /\ recv \in { MkYear(y) : y \in InitYearNumbers }
    /\ call = InitCall(recv)
    /\ steps = 0

YearIsLeapCall == HasKind(recv, "Year") /\ steps < MaxCalls /\ Query("is_leap", <<>>, Ok(YearIsLeap(recv.value)))
YearLengthCall == HasKind(recv, "Year") /\ steps < MaxCalls /\ Query("length", <<>>, Ok(YearLength(recv.value)))
YearAtDay ==
    /\ HasKind(recv, "Year")
    /\ \E n \in DayOfYearArguments : Query("at_day", <<n>>, at_day(recv, n))

NextYear == YearIsLeapCall \/ YearLengthCall \/ YearAtDay

SpecYear == InitYear /\ [][NextYear]_vars

(***************************************************************************)
(* Period                                                                  *)
(***************************************************************************)
MkPeriod(years, months, days) ==
    [kind |-> "Period", years |-> years, months |-> months, days |-> days]

\* The i32 arithmetic of a const fn: with overflow checks compiled in a
\* result outside i32 is a failure, without them it wraps.
I32Result(x, checks, msg) ==
    IF InI32(x) THEN Ok(x)
    ELSE IF checks THEN Panic(msg)
    ELSE Ok(AsI32(x))

PeriodOfResults(y, m, d) ==
    IF ~y.ok THEN y
    ELSE IF ~m.ok THEN m
    ELSE IF ~d.ok THEN d
    ELSE Ok(MkPeriod(y.val, m.val, d.val))

\* Period::plus that carries whole years out of the months.
period_plus_carrying(p, other, checks) ==
    LET months == p.months + other.months
    IN PeriodOfResults(I32Result(p.years + other.years + Quot(months, 12), checks, "attempt to add with overflow"),
                       I32Result(Rem(months, 12), checks, "attempt to add with overflow"),
                       I32Result(p.days + other.days, checks, "attempt to add with overflow"))

\* Period::plus
period_plus(p, other, checks) ==
    PeriodOfResults(I32Result(p.years + other.years, checks, "attempt to add with overflow"),
                    I32Result(p.months + other.months, checks, "attempt to add with overflow"),
                    I32Result(p.days + other.days, checks, "attempt to add with overflow"))

\* Period::minus
period_minus(p, other, checks) ==
    PeriodOfResults(I32Result(p.years - other.years, checks, "attempt to subtract with overflow"),
                    I32Result(p.months - other.months, checks, "attempt to subtract with overflow"),
                    I32Result(p.days - other.days, checks, "attempt to subtract with overflow"))

\* Period::negated
period_negated(p, checks) ==
    PeriodOfResults(I32Result(-p.years, checks, "attempt to negate with overflow"),
                    I32Result(-p.months, checks, "attempt to negate with overflow"),
                    I32Result(-p.days, checks, "attempt to negate with overflow"))

\* Period::is_negative with every component required to be negative.
period_is_negative_all(p) == p.years < 0 /\ p.months < 0 /\ p.days < 0

\* Period::is_negative
period_is_negative(p) == p.years < 0 \/ p.months < 0 \/ p.days < 0

\* Period::is_positive
period_is_positive(p) == p.years > 0 \/ p.months > 0 \/ p.days > 0

(***************************************************************************)
(* The Period machine                                                      *)
(***************************************************************************)
PeriodComponents == {I32_MIN, -1, 0, 1, 13, I32_MAX}

InitPeriods == { MkPeriod(y, m, d) : y \in PeriodComponents, m \in PeriodComponents, d \in PeriodComponents }

PeriodArguments ==
    { MkPeriod(1, 2, 3), MkPeriod(2, 3, 4), MkPeriod(0, 13, 0), MkPeriod(0, 0, 0),
      MkPeriod(-1, -1, -1), MkPeriod(1, -1, 0), MkPeriod(I32_MAX, 0, 0), MkPeriod(0, 0, I32_MIN) }

InitPeriod ==
    /\ recv \in InitPeriods
    /\ call = InitCall(recv)
    /\ steps = 0

PeriodPlus ==
    /\ HasKind(recv, "Period")
    /\ \E q \in PeriodArguments, checks \in BOOLEAN : Call("plus", <<q>>, period_plus(recv, q, checks))
PeriodMinus ==
    /\ HasKind(recv, "Period")
    /\ \E q \in PeriodArguments, checks \in BOOLEAN : Call("minus", <<q>>, period_minus(recv, q, checks))
PeriodNegated ==
    /\ HasKind(recv, "Period")
    /\ \E checks \in BOOLEAN : Call("negated", <<>>, period_negated(recv, checks))
PeriodIsNegative == HasKind(recv, "Period") /\ steps < MaxCalls /\ Query("is_negative", <<>>, Ok(period_is_negative(recv)))
PeriodIsPositive == HasKind(recv, "Period") /\ steps < MaxCalls /\ Query("is_positive", <<>>, Ok(period_is_positive(recv)))

NextPeriod == PeriodPlus \/ PeriodMinus \/ PeriodNegated \/ PeriodIsNegative \/ PeriodIsPositive

SpecPeriod == InitPeriod /\ [][NextPeriod]_vars

(***************************************************************************)
(* The Gregorian rules the properties are stated with                      *)
(***************************************************************************)
GregorianLeap(y) == y % 4 = 0 /\ (y % 100 # 0 \/ y % 400 = 0)

GregorianDaysInMonth(y, m) ==
    IF m = 2 THEN (IF GregorianLeap(y) THEN 29 ELSE 28)
    ELSE IF m \in {4, 6, 9, 11} THEN 30 ELSE 31

CalendarValid(d) ==
    /\ d.month \in 1..12
    /\ d.day >= 1
    /\ d.day <= GregorianDaysInMonth(d.year, d.month)

SupportedYear(y) == MIN_YEAR <= y /\ y <= MAX_YEAR

Arg == call.arg[1]

(***************************************************************************)
(* Properties of LocalDate (specification Spec)                            *)
(***************************************************************************)
\* The year, month and clamped day that plus_months is to produce.
EuclideanMonths(d, n) ==
    LET total == d.year * 12 + (d.month - 1) + n
        ny == total \div 12
        nm == (total % 12) + 1
    IN MkDate(ny, nm, Min(d.day, GregorianDaysInMonth(ny, nm)))

\* C1 as stated: for every date d and every n, d.plus_months(n) returns a
\* value, never an error, and that value is the Euclidean decomposition of
\* year*12 + (month-1) + n with the day clamped to the target month.
C1_PlusMonthsNeverFails ==
    call.op = "plus_months" =>
        call.res.ok /\ call.res.val = EuclideanMonths(call.self, Arg)

\* C1 amended: d.plus_months(n) returns the Euclidean decomposition of
\* year*12 + (month-1) + n with the day clamped to the length of the target
\* month (never rolling over) whenever the target year is a supported year
\* (MIN_YEAR..MAX_YEAR), and panics otherwise.
C1_PlusMonthsClamps ==
    call.op = "plus_months" =>
        LET e == EuclideanMonths(call.self, Arg)
        IN IF SupportedYear(e.year) THEN call.res = Ok(e) ELSE ~call.res.ok

C1_Witness ==
    /\ call.op = "plus_months"
    /\ call.res.ok
    /\ call.res.val.day < call.self.day
    /\ call.res.val.year # call.self.year

\* C2: d.plus_months(n) == d.minus_months(-n) and d.plus_years(n) ==
\* d.minus_years(-n) for every date (year 0 and negative years included) and
\* every n whose negation is representable.
C2_PlusMinusSymmetry ==
    /\ (call.op = "plus_months" /\ InI32(-Arg)) =>
           SameOutcome(call.res, minus_months(call.self, -Arg))
    /\ (call.op = "plus_years" /\ InI64(-Arg)) =>
           SameOutcome(call.res, minus_years(call.self, -Arg))

\* C3: after any sequence of plus/minus, with_* and weekday-navigation
\* operations the date held and every date returned is calendar-valid: month
\* in 1..12 and 1 <= day <= days_in_month(year, month).
C3_EveryDateValid ==
    /\ CalendarValid(recv)
    /\ call.res.ok => CalendarValid(call.res.val)

C3_Witness ==
    /\ steps >= 2
    /\ call.op = "with_day_of_month"
    /\ call.res.ok
    /\ call.res.val.day = 29
    /\ call.res.val.month = 2

\* C10: when the target year d.year + n is a supported year, d.plus_years(n)
\* has that year and the month and day of d, except that February 29 becomes
\* February 28 when the target year is not a leap year.
C10_PlusYearsKeepsMonthDay ==
    (call.op = "plus_years" /\ SupportedYear(call.self.year + Arg)) =>
        LET d == call.self
            ty == d.year + Arg
            day == IF d.month = 2 /\ d.day = 29 /\ ~GregorianLeap(ty) THEN 28 ELSE d.day
        IN call.res = Ok(MkDate(ty, d.month, day))

C10_Witness ==
    /\ call.op = "plus_years"
    /\ call.res.ok
    /\ call.self.day = 29
    /\ call.res.val.day = 28
    /\ call.res.val.year # call.self.year

(***************************************************************************)
(* Properties of the validating factories and field setters                *)
(* (specification SpecField)                                               *)
(***************************************************************************)
DateSetters == {"with_year", "with_month", "with_day_of_year", "with_day_of_month"}
TimeSetters == {"with_hour", "with_minute", "with_second", "with_millisecond", "with_nanosecond"}

\* The date a LocalDate setter is asked for, fields as given.
RequestedDate(op, d, x) ==
    CASE op = "with_year" -> MkDate(x, d.month, d.day)
      [] op = "with_month" -> MkDate(d.year, x, d.day)
      [] op = "with_day_of_month" -> MkDate(d.year, d.month, x)

\* The argument of a LocalTime setter is within the range of its field.
TimeFieldInRange(op, x) ==
    CASE op = "with_hour" -> x \in 0..23
      [] op = "with_minute" -> x \in 0..59
      [] op = "with_second" -> x \in 0..59
      [] op = "with_millisecond" -> x \in 0..999
      [] op = "with_nanosecond" -> x \in 0..(NANOS_PER_SECOND - 1)

\* C4: a field setter whose result would be invalid fails and never
\* substitutes another value: a LocalDate setter that returns has produced
\* exactly the requested year, month and day (no clamping, no wrapping), and
\* with_day_of_year and the LocalTime setters fail on an out-of-range field.
C4_SettersNeverSubstitute ==
    /\ (call.op \in {"with_year", "with_month", "with_day_of_month"}) =>
           LET want == RequestedDate(call.op, call.self, Arg)
           IN IF CalendarValid(want) /\ SupportedYear(want.year)
              THEN call.res = Ok(want)
              ELSE ~call.res.ok
    /\ (call.op = "with_day_of_year" /\ Arg \notin 1..(IF GregorianLeap(call.self.year) THEN 366 ELSE 365)) =>
           ~call.res.ok
    /\ (call.op \in TimeSetters /\ ~TimeFieldInRange(call.op, Arg)) => ~call.res.ok

\* C5: the validating factories and setters reject every out-of-range
\* argument: a month outside 1..12, a day outside 1..days_in_month, an hour
\* outside 0..23, a minute or second outside 0..59 never yields a value.
C5_FactoriesRejectOutOfRange ==
    /\ (call.op = "LocalDate::of") =>
           (~CalendarValid(MkDate(call.arg[1], call.arg[2], call.arg[3])) => ~call.res.ok)
    /\ (call.op = "with_month" /\ Arg \notin 1..12) => ~call.res.ok
    /\ (call.op = "with_day_of_month"
            /\ Arg \notin 1..GregorianDaysInMonth(call.self.year, call.self.month)) =>
           ~call.res.ok
    /\ (call.op = "LocalTime::of") =>
           ((call.arg[1] \notin 0..23 \/ call.arg[2] \notin 0..59 \/ call.arg[3] \notin 0..59)
                => ~call.res.ok)

(***************************************************************************)
(* Properties of Duration (specification SpecDuration)                     *)
(***************************************************************************)
PlusPerUnit ==
    {"plus_days", "plus_hours", "plus_minutes", "plus_seconds",
     "plus_milliseconds", "plus_nanoseconds"}
MinusPerUnit ==
    {"minus_days", "minus_hours", "minus_minutes", "minus_seconds",
     "minus_milliseconds", "minus_nanoseconds"}

\* Seconds in the unit of a per-unit operation (1 for the units that are
\* never multiplied).
UnitSeconds(op) ==
    CASE op \in {"plus_days", "minus_days"} -> SECONDS_PER_DAY
      [] op \in {"plus_hours", "minus_hours"} -> SECONDS_PER_HOUR
      [] op \in {"plus_minutes", "minus_minutes"} -> SECONDS_PER_MINUTE
      [] OTHER -> 1

\* The operation adds (dir = 1) or removes (dir = -1) a non-negative amount.
Upward(op, n) == (op \in PlusPerUnit /\ n >= 0) \/ (op \in MinusPerUnit /\ n <= 0)
Downward(op, n) == (op \in PlusPerUnit /\ n <= 0) \/ (op \in MinusPerUnit /\ n >= 0)

\* C6: a.plus(b) and a.minus(b) always return a value; when the seconds of
\* the exact result leave the i64 range the result is a range boundary.
C6_PlusMinusSaturate ==
    (call.op \in {"plus", "minus"}) =>
        /\ call.res.ok
        /\ LET sign == IF call.op = "plus" THEN 1 ELSE -1
           IN ~AddFitsI64(call.self.secs, sign * Arg.secs) =>
                  call.res.val \in {DURATION_MAX, DURATION_MIN}

\* C7 as stated: for d of exactly i64::MAX seconds d.plus_days(1) == d, and
\* a Duration at a range boundary is unchanged by any further addition in
\* the same direction, by a per-unit method or by plus.
C7_BoundaryUnchanged ==
    /\ (call.op = "plus_days" /\ call.self = MkDuration(I64_MAX, 0) /\ Arg = 1) =>
           call.res = Ok(call.self)
    /\ (call.op \in PlusPerUnit \cup MinusPerUnit /\ call.self = DURATION_MAX
            /\ Upward(call.op, Arg)) =>
           call.res = Ok(call.self)
    /\ (call.op = "plus" /\ call.self = DURATION_MAX /\ Arg.secs >= 0 /\ Arg.nanos >= 0) =>
           call.res = Ok(call.self)

(***************************************************************************)
(* Properties of LocalTime (specification SpecTime)                        *)
(***************************************************************************)
\* The amount of an operation as <<whole seconds, nanoseconds>> with
\* 0 <= nanoseconds < 10^9, reduced modulo one day where the amount is
\* multiplied.
AmountOfDay(unit, n) ==
    CASE unit = "hours" -> <<(n % 24) * 3600, 0>>
      [] unit = "minutes" -> <<(n % 1440) * 60, 0>>
      [] unit = "seconds" -> <<n % SECONDS_PER_DAY, 0>>
      [] unit = "milliseconds" ->
            LET k == n % (SECONDS_PER_DAY * 1000) IN <<k \div 1000, (k % 1000) * 1000000>>
      [] unit = "nanoseconds" -> <<n \div NANOS_PER_SECOND, n % NANOS_PER_SECOND>>

\* The time whose nanosecond-of-day is that of t plus the amount, reduced
\* modulo 86,400 x 10^9 with a non-negative remainder.
WrappedTime(t, unit, n) ==
    LET a == AmountOfDay(unit, n)
        nanos == t.nano + a[2]
        sod == (t.hour * 3600 + t.minute * 60 + t.second + a[1] + (nanos \div NANOS_PER_SECOND))
                   % SECONDS_PER_DAY
    IN MkTime(sod \div 3600, (sod % 3600) \div 60, sod % 60, nanos % NANOS_PER_SECOND)

TimeOps ==
    { [op |-> pm \o "_" \o u, sign |-> IF pm = "plus" THEN 1 ELSE -1, unit |-> u] :
        pm \in {"plus", "minus"},
        u \in {"hours", "minutes", "seconds", "milliseconds", "nanoseconds"} }

\* C8: for every time t and every signed amount n each plus_X / minus_X of
\* LocalTime returns, without failing, the time whose nanosecond-of-day is
\* that of t plus or minus n units reduced modulo one day (Euclidean).
C8_TimeArithmeticWraps ==
    \A o \in TimeOps :
        call.op = o.op => call.res = Ok(WrappedTime(call.self, o.unit, o.sign * Arg))

(***************************************************************************)
(* Properties of plus_years / minus_years (specification SpecYears)        *)
(***************************************************************************)
YearOf(v) == IF v.kind = "YearMonth" THEN v.year ELSE v.date.year

\* The years a value of the kind can hold.
RepresentableYear(kind, y) ==
    IF kind = "YearMonth" THEN InI32(y) ELSE SupportedYear(y)

\* C9: plus_years / minus_years fails whenever year + n (year - n) is not
\* representable, a returned value has exactly that year (never a saturated,
\* wrapped, truncated or unchanged one), and the date-time types behave as
\* LocalDate does on their date.
C9_YearOverflowIsFatal ==
    (call.op \in {"plus_years", "minus_years"}) =>
        LET x == call.self
            target == IF call.op = "plus_years" THEN YearOf(x) + Arg ELSE YearOf(x) - Arg
        IN /\ ~RepresentableYear(x.kind, target) => ~call.res.ok
           /\ call.res.ok => YearOf(call.res.val) = target
           /\ x.kind # "YearMonth" =>
                  LET r == IF call.op = "plus_years" THEN plus_years(x.date, Arg)
                           ELSE minus_years(x.date, Arg)
                  IN /\ call.res.ok = r.ok
                     /\ call.res.ok => call.res.val.date = r.val

(***************************************************************************)
(* Properties of the composite date-time types (specification              *)
(* SpecDateTime)                                                           *)
(***************************************************************************)
DateScaleOps ==
    {"plus_years", "minus_years", "plus_months", "minus_months",
     "plus_weeks", "minus_weeks", "plus_days", "minus_days"}
TimeScaleUnits == {"hours", "minutes", "seconds", "milliseconds", "nanoseconds"}
TimeScaleOps == {"plus_" \o u : u \in TimeScaleUnits} \cup {"minus_" \o u : u \in TimeScaleUnits}
ArithmeticOps == DateScaleOps \cup TimeScaleOps

IsOffsetKind(v) == HasKind(v, "OffsetDateTime") \/ HasKind(v, "ZonedDateTime")

\* The unit of a Duration-based operation.
UnitOfOp(op) == CHOOSE u \in DurationUnits : op \in {"plus_" \o u, "minus_" \o u}

\* The LocalDateTime operation of the same name.
LocalDateTimeOp(op, x, n) ==
    CASE op = "plus_years" -> ldt_plus_years(x, n)
      [] op = "minus_years" -> ldt_minus_years(x, n)
      [] op = "plus_months" -> ldt_plus_months(x, n)
      [] op = "minus_months" -> ldt_minus_months(x, n)
      [] op \in {"plus_" \o u : u \in DurationUnits} -> ldt_plus(x, UnitOfOp(op), n)
      [] OTHER -> ldt_minus(x, UnitOfOp(op), n)

\* The LocalDate operation of the same name.
LocalDateOp(op, d, n) ==
    CASE op = "plus_years" -> plus_years(d, n)
      [] op = "minus_years" -> minus_years(d, n)
      [] op = "plus_months" -> plus_months(d, n)
      [] op = "minus_months" -> minus_months(d, n)
      [] op = "plus_weeks" -> plus_weeks(d, n)
      [] op = "minus_weeks" -> minus_weeks(d, n)
      [] op = "plus_days" -> plus_days(d, n)
      [] op = "minus_days" -> minus_days(d, n)

\* C11: an arithmetic operation on an OffsetDateTime or ZonedDateTime gives
\* the local date-time that the same operation gives on the local date-time
\* of the receiver, with the same success or failure (months: for the
\* amounts LocalDateTime accepts, an i32).
C11_SameAsLocalDateTime ==
    (call.op \in ArithmeticOps /\ IsOffsetKind(call.self)
        /\ (call.op \in {"plus_months", "minus_months"} => InI32(Arg))) =>
        LET l == LocalDateTimeOp(call.op, to_local_date_time(call.self), Arg)
        IN /\ call.res.ok = l.ok
           /\ call.res.ok => to_local_date_time(call.res.val) = l.val

\* n units as <<whole seconds, nanoseconds>> with 0 <= nanoseconds < 10^9.
SecondsAndNanos(unit, n) ==
    CASE unit = "hours" -> <<n * SECONDS_PER_HOUR, 0>>
      [] unit = "minutes" -> <<n * SECONDS_PER_MINUTE, 0>>
      [] unit = "seconds" -> <<n, 0>>
      [] unit = "milliseconds" -> <<n \div 1000, (n % 1000) * 1000000>>
      [] unit = "nanoseconds" -> <<n \div NANOS_PER_SECOND, n % NANOS_PER_SECOND>>

UnitLength(unit) ==
    CASE unit = "hours" -> SECONDS_PER_HOUR
      [] unit = "minutes" -> SECONDS_PER_MINUTE
      [] OTHER -> 1

\* The date-time n units after x on the continuous local timeline: the time
\* of day wraps, the date moves by the day boundaries crossed.
UnitsAway(x, unit, n) ==
    LET a == SecondsAndNanos(unit, n)
        nanos == x.time.nano + a[2]
        secs == x.time.hour * 3600 + x.time.minute * 60 + x.time.second
                    + a[1] + (nanos \div NANOS_PER_SECOND)
        sod == secs % SECONDS_PER_DAY
        d == from_julian_day(to_julian_day(x.date) + (secs \div SECONDS_PER_DAY))
    IN IF d.ok
       THEN Ok(MkLocalDateTime(d.val, MkTime(sod \div 3600, (sod \div 60) % 60, sod % 60,
                                             nanos % NANOS_PER_SECOND)))
       ELSE d

\* C12: plus / minus of hours, minutes, seconds, milliseconds or nanoseconds
\* on a LocalDateTime returns, for every receiver and amount, the date-time
\* exactly that many units away, the overflow of the time of day carried into
\* the date.
C12_TimeUnitsCarryIntoDate ==
    (call.op \in TimeScaleOps /\ HasKind(call.self, "LocalDateTime")) =>
        LET unit == UnitOfOp(call.op)
            n == IF call.op \in {"plus_" \o u : u \in TimeScaleUnits} THEN Arg ELSE -Arg
        IN /\ call.res.ok
           /\ MulFitsI64(n, UnitLength(unit))
           /\ call.res = UnitsAway(call.self, unit, n)

\* C13: plus / minus of days, weeks, months or years on a LocalDateTime is
\* the LocalDate operation on the date with the time of day unchanged, and
\* fails exactly when the LocalDate operation fails.
C13_DateUnitsDelegate ==
    (call.op \in DateScaleOps /\ HasKind(call.self, "LocalDateTime")) =>
        LET r == LocalDateOp(call.op, call.self.date, Arg)
        IN /\ call.res.ok = r.ok
           /\ call.res.ok => call.res.val = MkLocalDateTime(r.val, call.self.time)

NavigationOps == {"next", "next_or_same", "previous", "previous_or_same"}

NavigationDirection(op) == IF op \in {"next", "next_or_same"} THEN 1 ELSE -1

\* The offsets a navigation may move by: 1..7 for the strict forms, 0..6 for
\* the or_same forms.
NavigationOffsets(op) == IF op \in {"next", "previous"} THEN 1..7 ELSE 0..6

\* Signed number of days from date a to date b.
DaysFromTo(a, b) == to_julian_day(b) - to_julian_day(a)

\* The navigation result is on the requested weekday, lies the allowed number
\* of days away in the direction of the operation, and is the receiver
\* itself exactly when the or_same form starts on that weekday; the strict
\* form then moves a full week.
NavigationLands(op, d, w, r) ==
    LET moved == NavigationDirection(op) * DaysFromTo(d, r)
    IN /\ day_of_week(r) = w
       /\ moved \in NavigationOffsets(op)
       /\ (day_of_week(d) = w) <=> (moved = (IF op \in {"next", "previous"} THEN 7 ELSE 0))

\* C19 as stated: for every LocalDate d and DayOfWeek w, next, next_or_same,
\* previous and previous_or_same return a date on w that is 1 to 7
\* (respectively 0 to 6) days after or before d, with 7 (respectively 0)
\* exactly when d is already on w.
C19_NavigationAlwaysLands ==
    (call.op \in NavigationOps) =>
        /\ call.res.ok
        /\ NavigationLands(call.op, call.self, Arg, call.res.val)

\* C19 amended: whenever a navigation returns a date it is on w and 1 to 7
\* (respectively 0 to 6) days away in its direction, 7 (respectively 0)
\* exactly when d is already on w; it fails with a date overflow exactly when
\* no date of the supported range -9999-01-01 .. 9999-12-31 lies on w at an
\* allowed distance.
C19_NavigationLandsInRange ==
    (call.op \in NavigationOps) =>
        LET jd == to_julian_day(call.self)
            reachable == \E k \in NavigationOffsets(call.op) :
                            LET t == jd + NavigationDirection(call.op) * k
                            IN /\ t >= MIN_JULIAN /\ t <= MAX_JULIAN
                               /\ (t % 7) + 1 = Arg
        IN /\ call.res.ok <=> reachable
           /\ call.res.ok => NavigationLands(call.op, call.self, Arg, call.res.val)
           /\ ~call.res.ok =>
                 call.res.err = (IF NavigationDirection(call.op) = 1
                                 THEN "Date overflow in plus_days"
                                 ELSE "Date overflow in minus_days")

\* A date already on the requested weekday is moved a full week by next.
C19_Witness ==
    /\ call.op = "next"
    /\ call.res.ok
    /\ day_of_week(call.self) = Arg
    /\ DaysFromTo(call.self, call.res.val) = 7

\* C20: first_in_month(w) and last_in_month(w) always return a date on w in
\* the year and month of the receiver, within the first seven days
\* (respectively the last seven days) of that month, which makes it the
\* earliest (respectively latest) date on w in the month.
C20_FirstLastInMonth ==
    (call.op \in {"first_in_month", "last_in_month"}) =>
        /\ call.res.ok
        /\ call.res.val.year = call.self.year
        /\ call.res.val.month = call.self.month
        /\ day_of_week(call.res.val) = Arg
        /\ (call.op = "first_in_month") => (call.res.val.day - 1 \in 0..6)
        /\ (call.op = "last_in_month") =>
               (length_of_month(call.self) - call.res.val.day \in 0..6)

\* first_in_month from a date late in its month moves back to the first week.
C20_Witness ==
    /\ call.op = "first_in_month"
    /\ call.res.ok
    /\ call.self.day > 7
    /\ call.res.val.day <= 7
    /\ call.res.val # first_day_of_month(call.self).val

(***************************************************************************)
(* ChronoUnit::add_to                                                      *)
(***************************************************************************)
\* The unit/type combinations with a defined meaning.
SupportedCombination(type, unit) ==
    CASE type = "Instant" -> unit \in TimeBasedUnits
      [] type = "LocalDate" -> unit \in DateBasedUnits
      [] type = "LocalTime" -> unit \in TimeBasedUnits
      [] type = "LocalDateTime" -> unit \in ChronoUnits

\* The failure that names the unit and the type of an undefined combination.
UnsupportedMessage(type, unit) ==
    IF type = "Instant"
    THEN "ChronoUnit::" \o unit \o " not supported for Instant::add_to (no calendar context)"
    ELSE DisplayName(unit) \o " not supported for " \o type \o "::add_to"

UnsupportedMessages ==
    { UnsupportedMessage(type, unit) :
          type \in {"Instant", "LocalDate", "LocalTime", "LocalDateTime"}, unit \in ChronoUnits }

\* C15 as stated: add_to fails, naming the unit and the type, for every
\* undefined unit/type combination, and returns a value for every other
\* combination, whatever the amount.
C15_AddToSucceedsWhenDefined ==
    (call.op = "add_to") =>
        LET type == TypeName(call.self)
            unit == call.arg[1]
        IN IF SupportedCombination(type, unit)
           THEN call.res.ok
           ELSE ~call.res.ok /\ call.res.err = UnsupportedMessage(type, unit)

\* C15 amended: add_to fails, naming the unit and the type, for every
\* undefined unit/type combination whatever the amount; a defined combination
\* (all ten units on LocalDateTime) is never rejected as unsupported: it
\* returns a value or fails with the error of the per-type method it
\* dispatches to.
C15_AddToRejectsUndefined ==
    (call.op = "add_to") =>
        LET type == TypeName(call.self)
            unit == call.arg[1]
        IN IF SupportedCombination(type, unit)
           THEN call.res.ok \/ call.res.err \notin UnsupportedMessages
           ELSE ~call.res.ok /\ call.res.err = UnsupportedMessage(type, unit)

\* An undefined combination has been rejected on a LocalDate and the date
\* is still held.
C15_Witness ==
    /\ call.op = "add_to"
    /\ IsDate(call.self)
    /\ call.arg[1] = "Hours"
    /\ ~call.res.ok
    /\ call.res.err = "HOURS not supported for LocalDate::add_to"
    /\ recv = call.self

\* The per-type method a supported combination stands for, applied to the
\* same amount. Where the amount times the unit length does not fit the
\* 64-bit argument of that method the outcome is "none" (nothing to compare
\* with); where the amount is outside the method's 32-bit argument, and so
\* outside every representable date, the outcome is "fails".
MatchingMethod(temporal, unit, n) ==
    LET type == TypeName(temporal)
        scaled(k, f(_)) == IF MulFitsI64(n, k) THEN f(n * k) ELSE [out |-> "none"]
        InstantSeconds(s) == instant_plus_seconds(temporal, s)
        TimeHours(h) == time_plus_hours(temporal, h)
        DateTimeHours(h) == ldt_plus(temporal, "hours", h)
    IN CASE type = "Instant" ->
              (CASE unit = "Nanos" -> instant_plus_nanoseconds(temporal, n)
                 [] unit = "Millis" -> instant_plus_milliseconds(temporal, n)
                 [] unit = "Seconds" -> instant_plus_seconds(temporal, n)
                 [] unit = "Minutes" -> scaled(60, InstantSeconds)
                 [] unit = "Hours" -> scaled(3600, InstantSeconds)
                 [] unit = "HalfDays" -> scaled(43200, InstantSeconds))
         [] type = "LocalDate" ->
              (CASE unit = "Days" -> plus_days(temporal, n)
                 [] unit = "Weeks" -> plus_weeks(temporal, n)
                 [] unit = "Months" -> IF InI32(n) THEN plus_months(temporal, n) ELSE [out |-> "fails"]
                 [] unit = "Years" -> plus_years(temporal, n))
         [] type = "LocalTime" ->
              (CASE unit = "Nanos" -> time_plus_nanoseconds(temporal, n)
                 [] unit = "Millis" -> time_plus_milliseconds(temporal, n)
                 [] unit = "Seconds" -> time_plus_seconds(temporal, n)
                 [] unit = "Minutes" -> time_plus_minutes(temporal, n)
                 [] unit = "Hours" -> time_plus_hours(temporal, n)
                 [] unit = "HalfDays" -> scaled(12, TimeHours))
         [] type = "LocalDateTime" ->
              (CASE unit = "Nanos" -> ldt_plus(temporal, "nanoseconds", n)
                 [] unit = "Millis" -> ldt_plus(temporal, "milliseconds", n)
                 [] unit = "Seconds" -> ldt_plus(temporal, "seconds", n)
                 [] unit = "Minutes" -> ldt_plus(temporal, "minutes", n)
                 [] unit = "Hours" -> ldt_plus(temporal, "hours", n)
                 [] unit = "HalfDays" -> scaled(12, DateTimeHours)
                 [] unit = "Days" -> ldt_plus(temporal, "days", n)
                 [] unit = "Weeks" -> ldt_plus(temporal, "weeks", n)
                 [] unit = "Months" -> IF InI32(n) THEN ldt_plus_months(temporal, n) ELSE [out |-> "fails"]
                 [] unit = "Years" -> ldt_plus_years(temporal, n))

\* C16: for every supported unit/type combination and every 64-bit amount
\* n, add_to gives the result, or the failure, of the matching per-type
\* method applied to the same n; an amount of months beyond 32 bits is
\* beyond every representable date and fails.
C16_AddToMatchesMethod ==
    (call.op = "add_to" /\ SupportedCombination(TypeName(call.self), call.arg[1])) =>
        LET m == MatchingMethod(call.self, call.arg[1], call.arg[2])
        IN IF "out" \in DOMAIN m
           THEN (m.out = "fails") => ~call.res.ok
           ELSE call.res = m

(***************************************************************************)
(* ChronoUnit::between and Duration::between                               *)
(***************************************************************************)
\* The exact difference of the epoch nanoseconds of the two temporals of a
\* between call: end minus start.
BetweenDiff == NsSub(epoch_nanoseconds(call.arg[Len(call.arg)]), epoch_nanoseconds(call.self))

\* C17: for every unit u and every pair of temporals, u.between(a, b) is the
\* difference of the epoch nanoseconds divided by the length of u, truncated
\* toward zero: the result is a whole number of units of the sign of the
\* difference, not beyond the difference and less than one unit short of it.
C17_BetweenIsTruncatedQuotient ==
    (call.op = "between") =>
        LET r == call.res.val
            unit == call.arg[1]
        IN /\ WholeUnits(NsAbs(r), unit) = NsAbs(r)
           /\ NsSign(r) \in {0, NsSign(BetweenDiff)}
           /\ ~NsLess(NsAbs(BetweenDiff), NsAbs(r))
           /\ NsLess(NsSub(NsAbs(BetweenDiff), NsAbs(r)), unit_nanos(unit))

WholeUnitSeconds(unit) ==
    CASE unit = "weeks" -> SECONDS_PER_WEEK
      [] unit = "days" -> SECONDS_PER_DAY
      [] unit = "hours" -> SECONDS_PER_HOUR
      [] unit = "minutes" -> SECONDS_PER_MINUTE
      [] unit = "seconds" -> 1

\* C21: to_weeks, to_days, to_hours, to_minutes and to_seconds return the
\* whole units of the duration truncated toward zero: the count has the sign
\* of the duration, its units do not exceed the magnitude of the duration
\* and fall less than one unit short of it; the duration of the opposite
\* sign, where it is representable, has the opposite count.
C21_WholeUnitsTruncate ==
    (call.op \in {"to_" \o u : u \in WholeUnitNames}) =>
        LET d == call.self
            len == WholeUnitSeconds(Arg)
            r == call.res.val
            magnitude == Abs(d.secs)
        IN /\ call.res.ok
           /\ (r > 0 => d.secs > 0) /\ (r < 0 => d.secs < 0)
           /\ Abs(r) * len <= magnitude
           /\ magnitude < (Abs(r) + 1) * len
           /\ d.secs # I64_MIN =>
                  to_unit(MkDuration(-d.secs, -d.nanos), Arg) = -r

\* A negative duration that is not a whole number of hours has been asked
\* for its hours and answered with the count nearer to zero.
C21_Witness ==
    /\ call.op = "to_hours"
    /\ call.self = MkDuration(-14399, 0)
    /\ call.res = Ok(-3)

\* C22: abs always returns a value and that value is never negative, for
\* the minimum duration too; whenever the magnitude is representable it is
\* the duration of that magnitude.
C22_AbsNonNegative ==
    (call.op = "abs") =>
        /\ call.res.ok
        /\ ~duration_is_negative(call.res.val)
        /\ call.self.secs # I64_MIN =>
               call.res.val = MkDuration(Abs(call.self.secs), Abs(call.self.nanos))

\* abs has been taken of a duration of i64::MIN seconds.
C22_Witness ==
    /\ call.op = "abs"
    /\ call.self.secs = I64_MIN
    /\ call.res.ok
    /\ call.res.val = DURATION_MAX

(***************************************************************************)
(* minus_X(n) against plus_X(-n)                                           *)
(***************************************************************************)
TimeUnitPlusOps == {"plus_" \o u : u \in TimeScaleUnits}
TimeUnitMinusOps == {"minus_" \o u : u \in TimeScaleUnits}

\* What -n evaluates to in i64: for i64::MIN the negation overflows, which
\* a build with overflow checks reports as a failure and a build without
\* them wraps back to i64::MIN.
NegatedOutcomes(n) == IF n = I64_MIN THEN {Panic("attempt to negate with overflow"), Ok(n)} ELSE {Ok(-n)}

\* The call made is the same as the opposite operation on the negated
\* amount m.
SameAsOpposite(m) ==
    call.res = time_unit_op(call.self, call.arg[2], m,
                            IF call.op \in TimeUnitPlusOps THEN -1 ELSE 1)

\* C23 as stated: for every Instant, LocalTime and LocalDateTime x, every
\* time unit X of the type and every 64-bit n, x.minus_X(n) == x.plus_X(-n)
\* and x.plus_X(n) == x.minus_X(-n), whatever the build makes of -n.
C23_MinusIsPlusNegatedForAll ==
    (call.op \in TimeUnitPlusOps \cup TimeUnitMinusOps) =>
        \A m \in NegatedOutcomes(Arg) : m.ok /\ SameAsOpposite(m.val)

\* C23 amended: for every Instant, LocalTime and LocalDateTime x, every time
\* unit X of the type and every 64-bit n other than i64::MIN,
\* x.minus_X(n) == x.plus_X(-n) and x.plus_X(n) == x.minus_X(-n): the same
\* value or the same failure.
C23_MinusIsPlusNegated ==
    (call.op \in TimeUnitPlusOps \cup TimeUnitMinusOps /\ Arg # I64_MIN) =>
        SameAsOpposite(-Arg)

\* A subtraction that leaves the day of a LocalDateTime has been made.
C23_Witness ==
    /\ call.op = "minus_hours"
    /\ HasKind(call.self, "LocalDateTime")
    /\ Arg = 25
    /\ call.res.ok
    /\ call.res.val.date # call.self.date
    /\ call.res = time_unit_op(call.self, "hours", -25, 1)

(***************************************************************************)
(* Epoch milliseconds                                                      *)
(***************************************************************************)
\* C24: epoch_milliseconds is the milliseconds elapsed since the Unix epoch:
\* the epoch seconds times 1000 plus the millisecond of the second (0..999),
\* which is the epoch nanoseconds divided by 1,000,000.
C24_EpochMilliseconds ==
    (call.op = "epoch_milliseconds") =>
        LET e == epoch_nanoseconds(call.self)
        IN call.res.val = Ns(e.d, e.s, e.n - (e.n % 1000000))

(***************************************************************************)
(* Year: at_day, is_leap, length                                           *)
(***************************************************************************)
\* C25: y.at_day(n) never returns a date of another year; for n from 1 to
\* the length of y it returns the date of y whose day of the year is n, the
\* date with_day_of_year(n) gives on a date of y.
C25_AtDayStaysInYear ==
    (call.op = "at_day") =>
        /\ call.res.ok => call.res.val.year = call.self.value
        /\ Arg \in 1..YearLength(call.self.value) =>
               /\ call.res.ok
               /\ Ordinal(call.res.val) = Arg
               /\ call.res = with_day_of_year(MkDate(call.self.value, 1, 1), Arg)

\* C28: for every representable year, year 0 and negative years included,
\* is_leap is true exactly for the multiples of 4 that are not multiples of
\* 100 or are multiples of 400, and length is 366 exactly for a leap year
\* and 365 otherwise, which is the number of days from 1 January of the year
\* to 1 January of the next.
C28_LeapYearRule ==
    LET y == call.self.value
        leap == (y % 4 = 0) /\ ((y % 100 # 0) \/ (y % 400 = 0))
    IN /\ (call.op = "is_leap") => (call.res.val <=> leap)
       /\ (call.op = "length") =>
              /\ call.res.val = (IF leap THEN 366 ELSE 365)
              /\ y < MAX_YEAR =>
                     call.res.val = to_julian_day(MkDate(y + 1, 1, 1)) - to_julian_day(MkDate(y, 1, 1))

\* A negative century year that is a multiple of 400 has been found leap.
C28_Witness ==
    /\ call.op = "is_leap"
    /\ call.self.value = -400
    /\ call.res = Ok(TRUE)

(***************************************************************************)
(* Period: component-wise arithmetic and sign tests                        *)
(***************************************************************************)
\* The component-wise result of a Period operation, as integers.
PeriodComponentwise ==
    LET p == call.self
    IN CASE call.op = "plus" -> MkPeriod(p.years + Arg.years, p.months + Arg.months, p.days + Arg.days)
         [] call.op = "minus" -> MkPeriod(p.years - Arg.years, p.months - Arg.months, p.days - Arg.days)
         [] call.op = "negated" -> MkPeriod(-p.years, -p.months, -p.days)

PeriodFits(p) == InI32(p.years) /\ InI32(p.months) /\ InI32(p.days)

\* C26 as stated: for all component values plus, minus and negated return
\* the period of the component-wise sums, differences and negations.
C26_ComponentwiseForAll ==
    (call.op \in {"plus", "minus", "negated"}) => call.res = Ok(PeriodComponentwise)

\* C26: whenever every component-wise sum, difference or negation fits in
\* i32, plus, minus and negated return exactly those components, nothing
\* carried or normalised between years, months and days.
C26_Componentwise ==
    (call.op \in {"plus", "minus", "negated"} /\ PeriodFits(PeriodComponentwise)) =>
        call.res = Ok(PeriodComponentwise)

\* 13 months plus 13 months has stayed 26 months.
C26_Witness ==
    /\ call.op = "plus"
    /\ call.self.months = 13
    /\ Arg.months = 13
    /\ call.res.ok
    /\ call.res.val.months = 26
    /\ call.res.val.years = call.self.years

\* C27: is_negative is true exactly when at least one of years, months and
\* days is negative, is_positive exactly when at least one is positive; so
\* both are false exactly for the zero period, and a period with a negative
\* and a positive component answers true to both.
C27_SignTests ==
    LET p == call.self
        parts == {p.years, p.months, p.days}
    IN /\ (call.op = "is_negative") =>
              /\ call.res.val <=> (\E c \in parts : c < 0)
              /\ (period_is_positive(p) \/ call.res.val) <=> (parts # {0})
       /\ (call.op = "is_positive") =>
              /\ call.res.val <=> (\E c \in parts : c > 0)
              /\ (period_is_negative(p) \/ call.res.val) <=> (parts # {0})

\* A period of mixed signs has been found negative.
C27_Witness ==
    /\ call.op = "is_negative"
    /\ call.self.years = 1
    /\ call.self.months = -1
    /\ call.self.days = 0
    /\ call.res = Ok(TRUE)

(***************************************************************************)
(* Conversions preserve the point in time                                  *)
(***************************************************************************)
\* C29: a conversion keeps the point in time to the nanosecond: to_instant
\* of an OffsetDateTime or ZonedDateTime x has the epoch nanoseconds of x,
\* at_offset of an Instant i followed by to_instant gives i back, and
\* with_offset_same_instant has the epoch nanoseconds of x.
C29_ConversionsKeepNanos ==
    /\ (call.op = "to_instant" /\ call.self.kind \in {"OffsetDateTime", "ZonedDateTime"}) =>
           /\ call.res.ok
           /\ epoch_nanoseconds(call.res.val) = epoch_nanoseconds(call.self)
    /\ (call.op = "at_offset" /\ call.res.ok) => to_instant(call.res.val) = Ok(call.self)
    /\ (call.op = "with_offset_same_instant" /\ call.res.ok) =>
           epoch_nanoseconds(call.res.val) = epoch_nanoseconds(call.self)

\* C30: x.to_instant(z) of a LocalDateTime x equals x.at_zone(z).to_instant():
\* its epoch seconds are x's seconds read as UTC minus the offset of z.
C30_ToInstantAtZone ==
    (call.op = "to_instant" /\ call.self.kind = "LocalDateTime") =>
        LET zoned == ldt_at_zone(call.self, Arg.offset)
        IN /\ call.res = to_instant(zoned.val)
           /\ call.res.ok =>
                  epoch_nanoseconds(call.res.val) = NsSub(epoch_seconds(call.self), Ns(0, Arg.offset, 0))

====
